---- MODULE Spec2Model ----
(***************************************************************************)
(* Model of the retrieval core of the documentation-book RAG backend:      *)
(*   - chunk_text           (backend/src/chunker.py)                        *)
(*   - process_query        (backend/src/retrieval/query_processor.py)      *)
(*   - search_similar_chunks, build_qdrant_filter                           *)
(*                          (backend/src/retrieval/vector_search.py)        *)
(*   - validate_retrieval_result, generate_validation_report               *)
(*                          (backend/src/retrieval/result_validator.py)     *)
(*   - embed, batch_embed   (backend/src/embedder.py)                       *)
(* Strings are sequences of one-character strings; Python's 0-based,       *)
(* half-open slices are translated by Slice.                               *)
(***************************************************************************)
EXTENDS Integers, Sequences, FiniteSets, TLC

\* ------------------------------------------------------------------------
\* Bounds of the model
\* ------------------------------------------------------------------------
MaxLen == 6
MaxChunkSize == 5
MaxIter == 5
MaxHits == 2
MaxValidations == 2
MaxChunks == 3
MaxTexts == 3
MaxBatchSize == 2
MaxFields == 2
MaxParagraphLen == 8
MaxParagraphChunk == 7
MaxRuns == 3
MaxRetries == 3
MaxFiltered == 2
MaxDocs == 2
MaxRequests == 3
MaxAsks == 12

\* characters a text is made of: a letter, a sentence mark, a blank, a newline
Chars == {"a", ".", " ", "\n"}
Punct == {".", "!", "?"}
Whitespace == {" ", "\n", "\t", "\r"}

Texts == UNION {[1..n -> Chars] : n \in 0..MaxLen}

\* longer texts of letters, newlines and sentence marks, for the windows in
\* which a paragraph break can lie strictly between the halfway point and
\* the window's end
ParagraphChars == {"a", "\n", "."}

ParagraphTexts == UNION {[1..n -> ParagraphChars] : n \in 0..MaxParagraphLen}

\* state of a chunk_text call
VARIABLES text, chunk_size, overlap, start, chunks, cuts, pc, result

\* state of a process_query call
VARIABLES query_text, top_k, min_score, q_pc, stages, embed_calls, search_calls,
          query_embedding, points, chunks_data, q_error, q_result

\* state of the validation of a retrieval result
VARIABLES retrieval_time_ms, v_pc, validation, n_validations, report_status

\* state of a batch_embed call
VARIABLES e_texts, batch_size, e_offset, all_embeddings, issued, last_call,
          e_pc, e_result, e_error

\* state of a build_qdrant_filter call
VARIABLES filters, f_pc, qdrant_filter

cvars == <<text, chunk_size, overlap, start, chunks, cuts, pc, result>>

qvars == <<query_text, top_k, min_score, q_pc, stages, embed_calls, search_calls,
           query_embedding, points, chunks_data, q_error, q_result>>

vvars == <<retrieval_time_ms, v_pc, validation, n_validations, report_status>>

evars == <<e_texts, batch_size, e_offset, all_embeddings, issued, last_call,
           e_pc, e_result, e_error>>

fvars == <<filters, f_pc, qdrant_filter>>

\* state of a validate_retrieval_consistency call
VARIABLES num_runs, run_results, n_pc, consistency_score

nvars == <<num_runs, run_results, n_pc, consistency_score>>

\* state of a retry_with_backoff call
VARIABLES max_retries, backoff_factor, attempt, outcomes, waits, t_pc, t_result, t_error

tvars == <<max_retries, backoff_factor, attempt, outcomes, waits, t_pc, t_result, t_error>>

\* state of an apply_metadata_filters call
VARIABLES m_chunks, m_filters, m_pc, m_result

mvars == <<m_chunks, m_filters, m_pc, m_result>>

\* state of a chunk_content_chunks call
VARIABLES content_chunks, doc_index, text_chunks_log, chunked_content, k_pc

kvars == <<content_chunks, doc_index, text_chunks_log, chunked_content, k_pc>>

\* the requests POST /api/chat has answered, with their responses
VARIABLES chat_log

hvars == <<chat_log>>

\* the RAG agent service: its session store and the number of /ask requests
VARIABLES session_store, asks

avars == <<session_store, asks>>

\* the state of the two HTTP services
svars == <<hvars, avars>>

\* the state of the components added to the retrieval core
xvars == <<nvars, tvars, mvars, kvars, svars>>

vars == <<cvars, qvars, vvars, evars, fvars, xvars>>

\* ------------------------------------------------------------------------
\* Python string primitives
\* ------------------------------------------------------------------------
Min(a, b) == IF a <= b THEN a ELSE b
Max(a, b) == IF a >= b THEN a ELSE b

\* a slice bound as Python normalises it against a length n
PyIndex(i, n) == IF i < 0 THEN Max(i + n, 0) ELSE Min(i, n)

\* t[lo:hi], lo and hi 0-based and possibly negative
Slice(t, lo, hi) == SubSeq(t, PyIndex(lo, Len(t)) + 1, PyIndex(hi, Len(t)))

\* t[lo:]
SliceFrom(t, lo) == SubSeq(t, PyIndex(lo, Len(t)) + 1, Len(t))

\* t[::-1]
Reverse(t) == [i \in 1..Len(t) |-> t[Len(t) + 1 - i]]

RECURSIVE LStrip(_)
LStrip(t) == IF t # <<>> /\ Head(t) \in Whitespace THEN LStrip(Tail(t)) ELSE t

\* str.strip()
Strip(t) == Reverse(LStrip(Reverse(LStrip(t))))

\* re.search(r'[.!?]+\s+', r).start(), 0-based; -1 when there is no match
MatchesAt(r, i) ==
    /\ r[i] \in Punct
    /\ \E j \in (i + 1)..Len(r) :
          /\ r[j] \in Whitespace
          /\ \A k \in i..(j - 1) : r[k] \in Punct

SentenceSearch(r) ==
    LET hits == {i \in 1..Len(r) : MatchesAt(r, i)}
    IN  IF hits = {} THEN -1
        ELSE (CHOOSE i \in hits : \A j \in hits : i <= j) - 1

\* chunk.rfind('\n\n'), 0-based; -1 when absent
RFindParagraph(c) ==
    LET hits == {p \in 1..(Len(c) - 1) : c[p] = "\n" /\ c[p + 1] = "\n"}
    IN  IF hits = {} THEN -1
        ELSE (CHOOSE p \in hits : \A q \in hits : p >= q) - 1

\* ------------------------------------------------------------------------
\* chunk_text
\* ------------------------------------------------------------------------
\* a short text returned trimmed, and dropped when nothing is left
ShortResultStripped(t) == IF Strip(t) = <<>> THEN <<>> ELSE <<Strip(t)>>

\* the early return of a short text
ShortResult(t) == IF t = <<>> THEN <<>> ELSE <<t>>

\* a window one character too long
WindowEndLong == start + chunk_size + 1

\* end of the look-ahead window
WindowEnd == start + chunk_size

Window == Slice(text, start, WindowEnd)

\* the position the iteration cuts at, by the three cut paths
SentenceCut == start + (Len(Window) - SentenceSearch(Reverse(Window)))

ParagraphCut == start + RFindParagraph(Window) + 2

UsesSentence == SentenceSearch(Reverse(Window)) # -1

\* a paragraph break taken wherever it lies in the window
UsesParagraphAnywhere ==
    /\ ~UsesSentence
    /\ RFindParagraph(Window) # -1

UsesParagraph ==
    /\ ~UsesSentence
    /\ RFindParagraph(Window) # -1
    /\ RFindParagraph(Window) > chunk_size \div 2

\* the guard that follows every cut: one more character when it fires
ProgressGuard(newStart, last) ==
    IF newStart <= Len(last) + newStart - chunk_size THEN newStart + 1 ELSE newStart

\* the span of text a slice [lo:hi] takes, as 1-based inclusive positions
Span(lo, hi) == <<PyIndex(lo, Len(text)) + 1, PyIndex(hi, Len(text))>>

\* post-processing: strip every chunk, drop the empty ones
RECURSIVE FilterStrip(_)
FilterStrip(cs) ==
    IF cs = <<>> THEN <<>>
    ELSE IF Strip(Head(cs)) # <<>> THEN <<Strip(Head(cs))>> \o FilterStrip(Tail(cs))
         ELSE FilterStrip(Tail(cs))

ChunkInit ==
    /\ text \in Texts
    /\ chunk_size \in 1..MaxChunkSize
    /\ overlap \in 0..(chunk_size - 1)
    /\ start = 0
    /\ chunks = <<>>
    /\ cuts = <<>>
    /\ pc = "entry"
    /\ result = <<>>

\* a call on a longer text of paragraphs
ParagraphInit ==
    /\ text \in ParagraphTexts
    /\ chunk_size \in 1..MaxParagraphChunk
    /\ overlap \in {0, chunk_size - 1}
    /\ start = 0
    /\ chunks = <<>>
    /\ cuts = <<>>
    /\ pc = "entry"
    /\ result = <<>>

ChunkIdle ==
    /\ text = <<>>
    /\ chunk_size = 1
    /\ overlap = 0
    /\ start = 0
    /\ chunks = <<>>
    /\ cuts = <<>>
    /\ pc = "idle"
    /\ result = <<>>

\* lines 28-29: a short or empty text is returned at once
ReturnShort ==
    /\ pc = "entry"
    /\ (text = <<>> \/ Len(text) <= chunk_size)
    /\ result' = ShortResult(text)
    /\ pc' = "done"
    /\ UNCHANGED <<text, chunk_size, overlap, start, chunks, cuts>>

\* lines 31-32: enter the loop
EnterLoop ==
    /\ pc = "entry"
    /\ ~(text = <<>> \/ Len(text) <= chunk_size)
    /\ chunks' = <<>>
    /\ start' = 0
    /\ pc' = "loop"
    /\ UNCHANGED <<text, chunk_size, overlap, cuts, result>>

\* lines 34-41: the window reaches the end of the text: take the rest
CutFinal ==
    /\ pc = "loop"
    /\ start < Len(text)
    /\ Len(chunks) < MaxIter
    /\ WindowEnd >= Len(text)
    /\ chunks' = Append(chunks, SliceFrom(text, start))
    /\ cuts' = Append(cuts, Span(start, Len(text)))
    /\ pc' = "filter"
    /\ UNCHANGED <<text, chunk_size, overlap, start, result>>

\* lines 44-52, 66-67: cut at the sentence boundary found in the window
CutSentence ==
    /\ pc = "loop"
    /\ start < Len(text)
    /\ Len(chunks) < MaxIter
    /\ WindowEnd < Len(text)
    /\ UsesSentence
    /\ LET c == Slice(text, start, SentenceCut)
       IN  /\ chunks' = Append(chunks, c)
           /\ cuts' = Append(cuts, Span(start, SentenceCut))
           /\ start' = ProgressGuard(SentenceCut - overlap, c)
    /\ UNCHANGED <<text, chunk_size, overlap, pc, result>>

\* lines 55-59, 66-67: cut after the last paragraph break of the window
CutParagraph ==
    /\ pc = "loop"
    /\ start < Len(text)
    /\ Len(chunks) < MaxIter
    /\ WindowEnd < Len(text)
    /\ UsesParagraph
    /\ LET c == Slice(text, start, ParagraphCut)
       IN  /\ chunks' = Append(chunks, c)
           /\ cuts' = Append(cuts, Span(start, ParagraphCut))
           /\ start' = ProgressGuard(ParagraphCut - overlap, c)
    /\ UNCHANGED <<text, chunk_size, overlap, pc, result>>

\* lines 60-63, 66-67: no boundary: cut at the end of the window
CutHard ==
    /\ pc = "loop"
    /\ start < Len(text)
    /\ Len(chunks) < MaxIter
    /\ WindowEnd < Len(text)
    /\ ~UsesSentence
    /\ ~UsesParagraph
    /\ LET c == Slice(text, start, WindowEnd)
       IN  /\ chunks' = Append(chunks, c)
           /\ cuts' = Append(cuts, Span(start, WindowEnd))
           /\ start' = ProgressGuard(WindowEnd - overlap, c)
    /\ UNCHANGED <<text, chunk_size, overlap, pc, result>>

\* line 34: the loop condition fails
ExitLoop ==
    /\ pc = "loop"
    /\ ~(start < Len(text))
    /\ pc' = "filter"
    /\ UNCHANGED <<text, chunk_size, overlap, start, chunks, cuts, result>>

\* lines 70-71: strip, filter and return
ReturnChunks ==
    /\ pc = "filter"
    /\ result' = FilterStrip(chunks)
    /\ pc' = "done"
    /\ UNCHANGED <<text, chunk_size, overlap, start, chunks, cuts>>

\* ------------------------------------------------------------------------
\* process_query and search_similar_chunks
\* ------------------------------------------------------------------------
\* scores are counted in tenths: 10 stands for 1.0
MaxTopK == 100
ScoreLow == 0
ScoreHigh == 10

\* Optional[float]: <<>> is None, <<s>> is the value s
NoneValue == <<>>
Some(v) == <<v>>

EmptyDict == [k \in {} |-> ""]

QueryTexts == {<<>>, <<" ">>, <<"a">>, <<" ", "a">>, <<"\n", " ">>}
TopKs == {-1, 0, 1, 2, MaxTopK, MaxTopK + 1}
MinScores == {NoneValue} \cup {Some(s) : s \in {-1, ScoreLow, 5, ScoreHigh, ScoreHigh + 1}}

\* what the embedding service can answer: lists of vectors
Embeddings == {<<>>, << <<1, 2>> >>, << <<3, 4>>, <<1, 2>> >>}

\* what the index can answer: scored points with an optional payload
Payloads ==
    { EmptyDict,
      [text_content |-> "t", chunk_index |-> 3],
      [text_content |-> "t", source_url |-> "u", page_title |-> "p",
       chunk_index |-> 1, metadata |-> [module |-> "m"], created_at |-> "d"] }

Hits == [id : 1..2, score : {-2, 4, 9, 12}, payload : Payloads]

PointLists(n) == UNION {[1..m -> Hits] : m \in 0..n}

\* the argument checks with top_k = 0 let through
ValidationErrorLax(q, k, ms) ==
    IF q = <<>> \/ Len(Strip(q)) = 0 THEN "Query text cannot be empty"
    ELSE IF k < 0 \/ k > MaxTopK THEN "top_k must be between 1 and 100"
    ELSE IF ms # NoneValue /\ (ms[1] < ScoreLow \/ ms[1] > ScoreHigh)
         THEN "min_score must be between 0.0 and 1.0 if specified"
    ELSE ""

\* the three argument checks, in the order of the code; "" when all pass
ValidationError(q, k, ms) ==
    IF q = <<>> \/ Len(Strip(q)) = 0 THEN "Query text cannot be empty"
    ELSE IF k <= 0 \/ k > MaxTopK THEN "top_k must be between 1 and 100"
    ELSE IF ms # NoneValue /\ (ms[1] < ScoreLow \/ ms[1] > ScoreHigh)
         THEN "min_score must be between 0.0 and 1.0 if specified"
    ELSE ""

ValidationErrors ==
    { "Query text cannot be empty",
      "top_k must be between 1 and 100",
      "min_score must be between 0.0 and 1.0 if specified" }

\* payload.get(key, default) if payload else default
PayloadGet(payload, key, default) ==
    IF payload # EmptyDict /\ key \in DOMAIN payload THEN payload[key] ELSE default

\* search_similar_chunks: one dictionary per point of the response
ChunkData(hit) ==
    [ id |-> hit.id,
      text_content |-> PayloadGet(hit.payload, "text_content", ""),
      source_url |-> PayloadGet(hit.payload, "source_url", ""),
      page_title |-> PayloadGet(hit.payload, "page_title", ""),
      chunk_index |-> PayloadGet(hit.payload, "chunk_index", 0),
      score |-> hit.score,
      metadata |-> PayloadGet(hit.payload, "metadata", EmptyDict),
      created_at |-> PayloadGet(hit.payload, "created_at", "") ]

\* the dictionaries in the reverse of the response's order
SearchResultsReversed(ps) == [i \in 1..Len(ps) |-> ChunkData(ps[Len(ps) + 1 - i])]

SearchResults(ps) == [i \in 1..Len(ps) |-> ChunkData(ps[i])]

\* process_query: one ContentChunk per dictionary
ToContentChunk(cd) ==
    [ id |-> cd.id,
      text_content |-> cd.text_content,
      source_url |-> cd.source_url,
      page_title |-> cd.page_title,
      chunk_index |-> cd.chunk_index,
      relevance_score |-> cd.score,
      metadata |-> cd.metadata ]

RetrievedChunks(cds) == [i \in 1..Len(cds) |-> ToContentChunk(cds[i])]

RelevanceScores(cds) == [i \in 1..Len(cds) |-> ToContentChunk(cds[i]).relevance_score]

RetrievalResult(cds) ==
    [ query_request |-> [query_text |-> query_text, top_k |-> top_k,
                         min_score |-> min_score, query_embedding |-> query_embedding],
      retrieved_chunks |-> RetrievedChunks(cds),
      relevance_scores |-> RelevanceScores(cds),
      total_candidates |-> Len(cds),
      validation_metrics |-> EmptyDict ]

NoResult == EmptyDict

QueryCall ==
    /\ query_text \in QueryTexts
    /\ top_k \in TopKs
    /\ min_score \in MinScores
    /\ q_pc = "call"
    /\ stages = <<>>
    /\ embed_calls = 0
    /\ search_calls = 0
    /\ query_embedding = NoneValue
    /\ points = <<>>
    /\ chunks_data = <<>>
    /\ q_error = ""
    /\ q_result = NoResult

QueryIdle ==
    /\ query_text = <<>>
    /\ top_k = 5
    /\ min_score = NoneValue
    /\ q_pc = "idle"
    /\ stages = <<>>
    /\ embed_calls = 0
    /\ search_calls = 0
    /\ query_embedding = NoneValue
    /\ points = <<>>
    /\ chunks_data = <<>>
    /\ q_error = ""
    /\ q_result = NoResult

\* the rejection raised only after the embedding has been requested
ValidateRejectLate ==
    /\ q_pc = "call"
    /\ ValidationError(query_text, top_k, min_score) # ""
    /\ embed_calls' = embed_calls + 1
    /\ q_error' = ValidationError(query_text, top_k, min_score)
    /\ q_pc' = "raised"
    /\ UNCHANGED <<query_text, top_k, min_score, stages, search_calls,
                   query_embedding, points, chunks_data, q_result>>

\* lines 88-96: an argument is rejected
ValidateReject ==
    /\ q_pc = "call"
    /\ ValidationError(query_text, top_k, min_score) # ""
    /\ q_error' = ValidationError(query_text, top_k, min_score)
    /\ q_pc' = "raised"
    /\ UNCHANGED <<query_text, top_k, min_score, stages, embed_calls, search_calls,
                   query_embedding, points, chunks_data, q_result>>

\* lines 88-104: the arguments pass and the request object is built
ValidateAccept ==
    /\ q_pc = "call"
    /\ ValidationError(query_text, top_k, min_score) = ""
    /\ stages' = Append(stages, "Validated")
    /\ q_pc' = "embed"
    /\ UNCHANGED <<query_text, top_k, min_score, embed_calls, search_calls,
                   query_embedding, points, chunks_data, q_error, q_result>>

\* lines 108-109, 172-186: the embedding service answers with vectors
EmbedReturns ==
    /\ q_pc = "embed"
    /\ \E embeddings \in Embeddings :
          /\ Len(embeddings) # 0
          /\ query_embedding' = Some(embeddings[1])
    /\ embed_calls' = embed_calls + 1
    /\ stages' = Append(stages, "Embedded")
    /\ q_pc' = "search"
    /\ UNCHANGED <<query_text, top_k, min_score, search_calls, points, chunks_data,
                   q_error, q_result>>

\* the missing vector logged and the search run all the same
EmbedReturnsNoneContinue ==
    /\ q_pc = "embed"
    /\ \E embeddings \in Embeddings : Len(embeddings) = 0
    /\ embed_calls' = embed_calls + 1
    /\ q_error' = "No embeddings returned from Cohere API"
    /\ stages' = Append(stages, "Embedded")
    /\ q_pc' = "search"
    /\ UNCHANGED <<query_text, top_k, min_score, search_calls, query_embedding,
                   points, chunks_data, q_result>>

\* lines 172-181, 188-190: the service answers with no vector
EmbedReturnsNone ==
    /\ q_pc = "embed"
    /\ \E embeddings \in Embeddings : Len(embeddings) = 0
    /\ embed_calls' = embed_calls + 1
    /\ q_error' = "No embeddings returned from Cohere API"
    /\ q_pc' = "raised"
    /\ UNCHANGED <<query_text, top_k, min_score, stages, search_calls, query_embedding,
                   points, chunks_data, q_result>>

\* a failed call to the service tried once more
EmbedRaisesRetry ==
    /\ q_pc = "embed"
    /\ embed_calls' = embed_calls + 1
    /\ IF embed_calls = 0
       THEN q_pc' = "embed" /\ q_error' = q_error
       ELSE q_pc' = "raised" /\ q_error' = "embedding service error"
    /\ UNCHANGED <<query_text, top_k, min_score, stages, search_calls, query_embedding,
                   points, chunks_data, q_result>>

\* lines 172-176, 188-190: the call to the service raises
EmbedRaises ==
    /\ q_pc = "embed"
    /\ embed_calls' = embed_calls + 1
    /\ q_error' = "embedding service error"
    /\ q_pc' = "raised"
    /\ UNCHANGED <<query_text, top_k, min_score, stages, search_calls, query_embedding,
                   points, chunks_data, q_result>>

\* lines 115-120 and vector_search.py 68-93: the index answers
SearchReturns ==
    /\ q_pc = "search"
    /\ \E ps \in PointLists(IF top_k < MaxHits THEN top_k ELSE MaxHits) :
          /\ points' = ps
          /\ chunks_data' = SearchResults(ps)
    /\ search_calls' = search_calls + 1
    /\ stages' = Append(stages, "Searched")
    /\ q_pc' = "assemble"
    /\ UNCHANGED <<query_text, top_k, min_score, embed_calls, query_embedding,
                   q_error, q_result>>

\* vector_search.py 68-74, 95-97: the call to the index raises
SearchRaises ==
    /\ q_pc = "search"
    /\ search_calls' = search_calls + 1
    /\ q_error' = "vector index error"
    /\ q_pc' = "raised"
    /\ UNCHANGED <<query_text, top_k, min_score, stages, embed_calls, query_embedding,
                   points, chunks_data, q_result>>

\* lines 124-153: the result is built and returned
Assemble ==
    /\ q_pc = "assemble"
    /\ q_result' = RetrievalResult(chunks_data)
    /\ stages' = Append(stages, "Assembled")
    /\ q_pc' = "returned"
    /\ UNCHANGED <<query_text, top_k, min_score, embed_calls, search_calls,
                   query_embedding, points, chunks_data, q_error>>

\* ------------------------------------------------------------------------
\* Exact arithmetic for the scores
\* ------------------------------------------------------------------------
\* the element of a singleton set: an argument bound through it is computed
\* once, wherever it is used
Value(S) == CHOOSE x \in S : TRUE

\* a rational is <<numerator, denominator>> in lowest terms, denominator > 0
Abs(x) == IF x < 0 THEN -x ELSE x

RECURSIVE GCD(_, _)
GCD(a, b) == IF b = 0 THEN a ELSE GCD(b, a % b)

Frac(n, d) ==
    Value({<<(sgn * n) \div g, (sgn * d) \div g>> :
              sgn \in {IF d < 0 THEN -1 ELSE 1}, g \in {GCD(Abs(n), Abs(d))}})

Zero == <<0, 1>>
One == <<1, 1>>
Half == <<1, 2>>

FAdd(x, y) == Value({Frac(a[1] * b[2] + b[1] * a[2], a[2] * b[2]) : a \in {x}, b \in {y}})
FSub(x, y) == Value({Frac(a[1] * b[2] - b[1] * a[2], a[2] * b[2]) : a \in {x}, b \in {y}})
FMul(x, y) == Value({Frac(a[1] * b[1], a[2] * b[2]) : a \in {x}, b \in {y}})
FDiv(x, y) == Value({Frac(a[1] * b[2], a[2] * b[1]) : a \in {x}, b \in {y}})
FLe(x, y) == Value({a[1] * b[2] <= b[1] * a[2] : a \in {x}, b \in {y}})
FLt(x, y) == Value({a[1] * b[2] < b[1] * a[2] : a \in {x}, b \in {y}})
FMax(x, y) == Value({IF FLe(a, b) THEN b ELSE a : a \in {x}, b \in {y}})
FMin(x, y) == Value({IF FLe(a, b) THEN a ELSE b : a \in {x}, b \in {y}})

RECURSIVE FSum(_)
FSum(xs) ==
    Value({IF s = <<>> THEN Zero ELSE FAdd(Head(s), FSum(Tail(s))) : s \in {xs}})

Floor(x) == Value({a[1] \div a[2] : a \in {x}})

RECURSIVE Pow2(_)
Pow2(k) == IF k = 0 THEN 1 ELSE 2 * Pow2(k - 1)

\* 2 ** k as a rational, k of either sign
Pow2Q(k) == IF k >= 0 THEN <<Pow2(k), 1>> ELSE <<1, Pow2(-k)>>

\* (2 ** p) % m
RECURSIVE PowMod(_, _)
PowMod(p, m) ==
    IF p = 0 THEN 1 % m
    ELSE IF p % 2 = 0 THEN Value({(h * h) % m : h \in {PowMod(p \div 2, m)}})
    ELSE (2 * PowMod(p - 1, m)) % m

\* ------------------------------------------------------------------------
\* Python floats: IEEE 754 binary64, round to nearest, ties to even
\* ------------------------------------------------------------------------
\* A float is [nom, err]: the rational it stands for and the distance from
\* it in units of 2 ** -53, so that its exact value is nom + err * 2 ** -53.
MantissaBits == 53
MinBinade == -8
MaxBinade == 4

\* the E with 2 ** E <= q < 2 ** (E + 1), q > 0
Binade(q) ==
    Value({CHOOSE E \in MinBinade..MaxBinade : FLe(Pow2Q(E), a) /\ FLt(a, Pow2Q(E + 1)) :
              a \in {q}})

\* the binade of q + e * 2 ** -53: the one below that of q = 2 ** E when e < 0
FloatBinade(q, e) ==
    Value({IF q = Pow2Q(E) /\ FLt(e, Zero) THEN E - 1 ELSE E : E \in {Binade(q)}})

\* (q + e * 2 ** -53) / 2 ** (E - 52), less the whole part of q / 2 ** (E - 52)
ScaledOffset(q, e, E) ==
    Value({FAdd(Frac((q[1] * PowMod(p, q[2])) % q[2], q[2]), FMul(e, Pow2Q(-1 - E))) :
              p \in {(MantissaBits - 1) - E}})

\* whether the whole part of q / 2 ** (E - 52) is odd
ScaledOdd(q, E) ==
    Value({((q[1] * PowMod(p, 2 * q[2])) % (2 * q[2])) >= q[2] :
              p \in {(MantissaBits - 1) - E}})

\* the integer nearest to g, the even one of two equally near; odd tells
\* the parity of the whole part that g leaves out
RoundNearestEven(g, odd) ==
    Value({IF FLt(FSub(g, <<lo, 1>>), Half) THEN lo
           ELSE IF FLt(Half, FSub(g, <<lo, 1>>)) THEN lo + 1
           ELSE IF (lo % 2 = 1) # odd THEN lo + 1 ELSE lo : lo \in {Floor(g)}})

FloatRoundIn(q, e, E) ==
    Value({[nom |-> q,
            err |-> FSub(e, FMul(FSub(g, <<RoundNearestEven(g, odd), 1>>), Pow2Q(E + 1)))] :
              g \in {ScaledOffset(q, e, E)}, odd \in {ScaledOdd(q, E)}})

\* the float nearest to q + e * 2 ** -53, q > 0
FloatRoundPos(q, e) == Value({FloatRoundIn(q, e, E) : E \in {FloatBinade(q, e)}})

FloatRound(q, e) ==
    Value({IF a = Zero THEN [nom |-> Zero, err |-> b]
           ELSE IF FLt(Zero, a) THEN FloatRoundPos(a, b)
           ELSE [nom |-> a, err |-> FSub(Zero, FloatRoundPos(FSub(Zero, a), FSub(Zero, b)).err)] :
              a \in {q}, b \in {e}})

\* the float of a decimal literal
FloatOf(q) == FloatRound(q, Zero)

FloatAdd(x, y) ==
    Value({FloatRound(FAdd(a.nom, b.nom), FAdd(a.err, b.err)) : a \in {x}, b \in {y}})

FloatDivInt(x, n) ==
    Value({FloatRound(FDiv(a.nom, <<n, 1>>), FDiv(a.err, <<n, 1>>)) : a \in {x}})

\* sum(xs): the additions from left to right, each one rounded
RECURSIVE FloatSum(_)
FloatSum(xs) ==
    Value({IF s = <<>> THEN FloatOf(Zero)
           ELSE FloatAdd(FloatSum(SubSeq(s, 1, Len(s) - 1)), s[Len(s)]) : s \in {xs}})

\* ------------------------------------------------------------------------
\* Reals rat + coef * sqrt(rad) + ulps * 2 ** -53
\* ------------------------------------------------------------------------
\* rad >= 0; ulps is the part of the value that is below every rational
Real(rat, coef, rad, ulps) ==
    Value({IF c = Zero \/ r = Zero
           THEN [rat |-> rat, coef |-> Zero, rad |-> Zero, ulps |-> ulps]
           ELSE [rat |-> rat, coef |-> c, rad |-> r, ulps |-> ulps] :
              c \in {coef}, r \in {rad}})

Surd(rat, coef, rad) == Real(rat, coef, rad, Zero)

RealOf(q) == Surd(q, Zero, Zero)

\* the real a float stands for
RealOfFloat(x) == Value({Real(a.nom, Zero, Zero, a.err) : a \in {x}})

\* q ** 0.5
Sqrt(q) == Surd(Zero, One, q)

RScale(x, k) ==
    Value({Real(FMul(a.rat, b), FMul(a.coef, b), a.rad, FMul(a.ulps, b)) : a \in {x}, b \in {k}})

RAddRat(x, q) == Value({Real(FAdd(a.rat, q), a.coef, a.rad, a.ulps) : a \in {x}})

\* rat + coef * sqrt(rad) >= q, decided by squaring the radical part
BaseGe(x, q) ==
    Value({IF FLe(Zero, a.coef)
           THEN FLe(d, Zero) \/ FLe(FMul(d, d), FMul(FMul(a.coef, a.coef), a.rad))
           ELSE FLe(d, Zero) /\ FLe(FMul(FMul(a.coef, a.coef), a.rad), FMul(d, d)) :
              a \in {x}, d \in {FSub(q, x.rat)}})

BaseLe(x, q) == BaseGe(RScale(x, <<-1, 1>>), FSub(Zero, q))

\* x >= q and x <= q
RGeRat(x, q) ==
    Value({~BaseLe(a, b) \/ (BaseGe(a, b) /\ FLe(Zero, a.ulps)) : a \in {x}, b \in {q}})

RLeRat(x, q) ==
    Value({~BaseGe(a, b) \/ (BaseLe(a, b) /\ FLe(a.ulps, Zero)) : a \in {x}, b \in {q}})

REqRat(x, q) == Value({RGeRat(a, b) /\ RLeRat(a, b) : a \in {x}, b \in {q}})

\* max(q, x)
RMaxRat(q, x) == Value({IF RGeRat(a, q) THEN a ELSE RealOf(q) : a \in {x}})

\* ------------------------------------------------------------------------
\* validate_retrieval_result and generate_validation_report
\* ------------------------------------------------------------------------
TargetMs == 2000
MaxPossibleStdDev == Half
PassThreshold == Frac(7, 10)
WarningThreshold == Frac(5, 10)

\* the search durations a result can carry, in milliseconds
Durations == {-500, 0, 1000, 2000, 3600, 4400, 6000, 9000}

\* the hits behind the results that are validated
VScores == {-2, 0, 4, 7, 10, 12}

VHits ==
    [id : {1}, score : VScores, payload : {[source_url |-> "u"]}]
        \cup [id : {1}, score : {4}, payload : {EmptyDict, [source_url |-> " "]}]

VPointLists(n) == UNION {[1..m -> VHits] : m \in 0..n}

\* s.strip() of a source_url
UrlStrip(u) == IF u \in {"", " ", "\n"} THEN "" ELSE u

\* [chunk.relevance_score for chunk in retrieved_chunks], as rationals
ScoreList(rr) ==
    [i \in 1..Len(rr.retrieved_chunks) |->
        Frac(rr.retrieved_chunks[i].relevance_score, ScoreHigh)]

MeanScore(rr) == FDiv(FSum(ScoreList(rr)), Frac(Len(rr.retrieved_chunks), 1))

\* the mean reported as it is, without min and max
CalculatePrecisionScoreUnclamped(rr) ==
    IF Len(rr.retrieved_chunks) = 0 THEN Zero ELSE MeanScore(rr)

CalculatePrecisionScore(rr) ==
    IF Len(rr.retrieved_chunks) = 0 THEN Zero
    ELSE FMin(One, FMax(Zero, MeanScore(rr)))

\* None where the payload stores a null
PyNone == "None"

\* whether Python takes a source_url as true
Truthy(u) == u \notin {"", PyNone}

\* u.strip() raises AttributeError on a value that is no string
StripRaises(u) == u = PyNone

\* the source test with strip() called on every source_url
SourceTestRaisesUnguarded(chunk) == StripRaises(chunk.source_url)

\* lines 211 and 322: `chunk.source_url and chunk.source_url.strip() != ""`
\* raises only when strip() is reached on a value that is no string
SourceTestRaises(chunk) == Truthy(chunk.source_url) /\ StripRaises(chunk.source_url)

HasValidSource(chunk) == Truthy(chunk.source_url) /\ UrlStrip(chunk.source_url) # ""

ValidSourceCount(rr) ==
    Cardinality({i \in 1..Len(rr.retrieved_chunks) : HasValidSource(rr.retrieved_chunks[i])})

\* an empty result counted as fully traceable
CalculateTraceabilityScoreVacuous(rr) ==
    IF Len(rr.retrieved_chunks) = 0 THEN One
    ELSE Frac(ValidSourceCount(rr), Len(rr.retrieved_chunks))

CalculateTraceabilityScore(rr) ==
    IF Len(rr.retrieved_chunks) = 0 THEN Zero
    ELSE Frac(ValidSourceCount(rr), Len(rr.retrieved_chunks))

\* sum((score - mean) ** 2) / len
ScoreVariance(rr) ==
    Value({FDiv(FSum([i \in 1..Len(ss) |-> FMul(FSub(ss[i], m), FSub(ss[i], m))]),
                <<Len(ss), 1>>) :
              ss \in {ScoreList(rr)}, m \in {MeanScore(rr)}})

\* the floats of the relevance scores
FloatScores(rr) ==
    [i \in 1..Len(rr.retrieved_chunks) |-> FloatOf(ScoreList(rr)[i])]

\* sum(relevance_scores) / len(relevance_scores) as Python computes it
FloatMean(rr) == FloatDivInt(FloatSum(FloatScores(rr)), Len(rr.retrieved_chunks))

\* score - mean_score of equal scores, in units of 2 ** -53: a difference of
\* two floats of one binade, which no rounding touches
EqualScoresDeviation(rr) == FSub(FloatOf(ScoreList(rr)[1]).err, FloatMean(rr).err)

\* The scores differ from their mean either by the rounding of the mean alone
\* (equal scores: squares, their mean and its root are exact) or by an amount
\* next to which that rounding is not tracked.
CalculateConsistencyScore(rr) ==
    IF Len(rr.retrieved_chunks) < 2 THEN RealOf(One)
    ELSE IF \A i \in 1..Len(rr.retrieved_chunks) :
                rr.retrieved_chunks[i].relevance_score = rr.retrieved_chunks[1].relevance_score
    THEN Value({RMaxRat(Zero, RealOfFloat(FloatRound(One, FSub(Zero, FDiv(std_dev, MaxPossibleStdDev))))) :
                   std_dev \in {Frac(Abs(d[1]), d[2]) : d \in {EqualScoresDeviation(rr)}}})
    ELSE Value({RMaxRat(Zero, RAddRat(RScale(std_dev, FDiv(<<-1, 1>>, MaxPossibleStdDev)), One)) :
                   std_dev \in {Sqrt(ScoreVariance(rr))}})

\* the score without its upper cap
CalculateLatencyScoreUncapped(ms) ==
    IF ms <= 0 THEN One
    ELSE LET latency_ratio == Frac(ms, TargetMs)
         IN  FMax(Zero, FSub(One, FMul(FSub(latency_ratio, One), Half)))

\* the penalty applied from the first millisecond instead of from the target
CalculateLatencyScoreFromZero(ms) ==
    IF ms <= 0 THEN One
    ELSE LET latency_ratio == Frac(ms, TargetMs)
         IN  FMax(Zero, FMax(Zero, FMin(One, FSub(One, FMul(latency_ratio, Half)))))

CalculateLatencyScore(ms) ==
    IF ms <= 0 THEN One
    ELSE LET latency_ratio == Frac(ms, TargetMs)
         IN  FMax(Zero, FMax(Zero, FMin(One, FSub(One, FMul(FSub(latency_ratio, One), Half)))))

\* (precision + traceability + consistency + latency) / 4.0
OverallQuality(p, t, c, l) == RScale(RAddRat(c, FAdd(FAdd(p, t), l)), Frac(1, 4))

GetPrecisionDetails(rr) ==
    IF Len(rr.retrieved_chunks) = 0 THEN [message |-> "No chunks to evaluate"]
    ELSE [avg_relevance_score |-> MeanScore(rr),
          num_chunks_evaluated |-> Len(rr.retrieved_chunks)]

GetTraceabilityDetails(rr) ==
    [total_chunks |-> Len(rr.retrieved_chunks),
     chunks_with_valid_source |-> ValidSourceCount(rr),
     chunks_without_source |-> Len(rr.retrieved_chunks) - ValidSourceCount(rr),
     traceability_percentage |->
        IF Len(rr.retrieved_chunks) > 0
        THEN FMul(Frac(ValidSourceCount(rr), Len(rr.retrieved_chunks)), Frac(100, 1))
        ELSE Zero]

GetConsistencyDetails(rr) ==
    IF Len(rr.retrieved_chunks) = 0 THEN [message |-> "No chunks to evaluate"]
    ELSE [num_chunks_evaluated |-> Len(rr.retrieved_chunks),
          relevance_scores |-> ScoreList(rr),
          relevance_variance |->
             IF Len(rr.retrieved_chunks) > 1 THEN ScoreVariance(rr) ELSE Zero]

GetLatencyDetails(ms) ==
    [retrieval_time_ms |-> ms,
     is_within_target |-> ms <= TargetMs,
     latency_ratio |-> Frac(ms, TargetMs)]

ValidationResult(rr, ms) ==
    Value({[retrieval_result |-> rr,
            precision_score |-> p,
            traceability_score |-> t,
            consistency_score |-> c,
            latency_score |-> l,
            overall_quality |-> OverallQuality(p, t, c, l),
            validation_details |->
               [precision_details |-> GetPrecisionDetails(rr),
                traceability_details |-> GetTraceabilityDetails(rr),
                consistency_details |-> GetConsistencyDetails(rr),
                latency_details |-> GetLatencyDetails(ms),
                query_info |-> [query_text |-> rr.query_request.query_text,
                                top_k_requested |-> rr.query_request.top_k,
                                num_results_returned |-> Len(rr.retrieved_chunks)]]] :
              p \in {CalculatePrecisionScore(rr)},
              t \in {CalculateTraceabilityScore(rr)},
              c \in {CalculateConsistencyScore(rr)},
              l \in {CalculateLatencyScore(ms)}})

\* the divisors the score and details functions reach, behind their guards
Divisors(rr) ==
    LET n == Len(rr.retrieved_chunks)
    IN  (IF n = 0 THEN {} ELSE {n})                \* 178-185, 205-215
           \cup (IF n < 2 THEN {} ELSE {n})        \* 232-240
           \cup (IF n = 0 THEN {} ELSE {n})        \* 286-292, 343-349
           \cup (IF n > 0 THEN {n} ELSE {})        \* 328

\* the exception validate_retrieval_result ends with; "" when it returns
ValidationFailure(rr) ==
    IF \E i \in 1..Len(rr.retrieved_chunks) : SourceTestRaises(rr.retrieved_chunks[i])
    THEN "AttributeError"
    ELSE IF 0 \in Divisors(rr) THEN "ZeroDivisionError"
    ELSE ""

\* what the call leaves the caller with
ValidationOutcome(rr, ms) ==
    IF ValidationFailure(rr) = "" THEN ValidationResult(rr, ms)
    ELSE [error |-> ValidationFailure(rr)]

\* the verdict with the warning band open at 0.5
ReportStatusStrict(oq) ==
    IF RGeRat(oq, PassThreshold) THEN "PASS"
    ELSE IF ~RLeRat(oq, WarningThreshold) THEN "WARNING"
    ELSE "FAIL"

\* the VALIDATION STATUS line of the report
ReportStatus(oq) ==
    IF RGeRat(oq, PassThreshold) THEN "PASS"
    ELSE IF RGeRat(oq, WarningThreshold) THEN "WARNING"
    ELSE "FAIL"

NoValidation == EmptyDict

ValidationIdle ==
    /\ retrieval_time_ms = 0
    /\ v_pc = "idle"
    /\ validation = NoValidation
    /\ n_validations = 0
    /\ report_status = ""

\* a process_query call that has returned, with the duration it measured
QueryReturned ==
    /\ query_text = <<"a">>
    /\ top_k = 5
    /\ min_score = NoneValue
    /\ q_pc = "returned"
    /\ stages = <<"Validated", "Embedded", "Searched", "Assembled">>
    /\ embed_calls = 1
    /\ search_calls = 1
    /\ query_embedding = Some(<<1, 2>>)
    /\ points \in VPointLists(MaxChunks)
    /\ chunks_data = SearchResults(points)
    /\ q_error = ""
    /\ q_result = RetrievalResult(chunks_data)
    /\ retrieval_time_ms \in Durations

ValidationReady ==
    /\ v_pc = "ready"
    /\ validation = NoValidation
    /\ n_validations = 0
    /\ report_status = ""

\* hits with the data-quality anomalies: scores outside [0,1], a source_url
\* that is empty, absent or null, no payload at all
AnomalyPayloads ==
    { EmptyDict,
      [source_url |-> ""],
      [text_content |-> "t"],
      [source_url |-> PyNone],
      [source_url |-> "u"] }

AnomalyHits == [id : {1}, score : {-2, 5, 12}, payload : AnomalyPayloads]

AnomalyPointLists(n) == UNION {[1..m -> AnomalyHits] : m \in 0..n}

\* a process_query call whose search has just returned such hits
SearchReturned ==
    /\ query_text = <<"a">>
    /\ top_k = 5
    /\ min_score = NoneValue
    /\ q_pc = "assemble"
    /\ stages = <<"Validated", "Embedded", "Searched">>
    /\ embed_calls = 1
    /\ search_calls = 1
    /\ query_embedding = Some(<<1, 2>>)
    /\ points \in AnomalyPointLists(MaxHits)
    /\ chunks_data = SearchResults(points)
    /\ q_error = ""
    /\ q_result = NoResult
    /\ retrieval_time_ms = 1000

\* the scores written back into the result's validation_metrics
ValidateResultStoring ==
    /\ v_pc \in {"ready", "validated"}
    /\ q_pc = "returned"
    /\ n_validations < MaxValidations
    /\ validation' = ValidationOutcome(q_result, retrieval_time_ms)
    /\ q_result' = [q_result EXCEPT !.validation_metrics =
                       [precision |-> CalculatePrecisionScore(q_result)]]
    /\ n_validations' = n_validations + 1
    /\ v_pc' = IF ValidationFailure(q_result) = "" THEN "validated" ELSE "raised"
    /\ UNCHANGED <<query_text, top_k, min_score, q_pc, stages, embed_calls, search_calls,
                   query_embedding, points, chunks_data, q_error>>
    /\ UNCHANGED <<retrieval_time_ms, report_status>>

\* result_validator.py 118-165: the result is scored
ValidateResult ==
    /\ v_pc \in {"ready", "validated"}
    /\ q_pc = "returned"
    /\ n_validations < MaxValidations
    /\ validation' = ValidationOutcome(q_result, retrieval_time_ms)
    /\ n_validations' = n_validations + 1
    /\ v_pc' = IF ValidationFailure(q_result) = "" THEN "validated" ELSE "raised"
    /\ UNCHANGED qvars
    /\ UNCHANGED <<retrieval_time_ms, report_status>>

\* result_validator.py 531-562: the report is written
GenerateReport ==
    /\ v_pc = "validated"
    /\ report_status' = ReportStatus(validation.overall_quality)
    /\ UNCHANGED qvars
    /\ UNCHANGED <<retrieval_time_ms, v_pc, validation, n_validations>>

\* ------------------------------------------------------------------------
\* embed and batch_embed
\* ------------------------------------------------------------------------
TextLists == UNION {[1..n -> {"a", "b"}] : n \in 0..MaxTexts}

BatchSizes == 1..MaxBatchSize

\* the vectors the embedding service can send back
Vectors == {<<1>>, <<2>>, <<1, 2>>}

\* response.embeddings for a request of n texts: any number of any vectors
Responses(n) == UNION {[1..m -> Vectors] : m \in 0..(n + 1)}

\* texts[i:i + batch_size]
Batch == Slice(e_texts, e_offset, e_offset + batch_size)

\* embedder.py 46-50: every embedding as long as the first one
SameDimension(embeddings) ==
    \A i \in 1..Len(embeddings) : Len(embeddings[i]) = Len(embeddings[1])

NoCall == EmptyDict

EmbedCall ==
    /\ e_texts \in TextLists
    /\ batch_size \in BatchSizes
    /\ e_offset = 0
    /\ all_embeddings = <<>>
    /\ issued = <<>>
    /\ last_call = NoCall
    /\ e_pc = "start"
    /\ e_result = NoneValue
    /\ e_error = ""

EmbedIdle ==
    /\ e_texts = <<>>
    /\ batch_size = 1
    /\ e_offset = 0
    /\ all_embeddings = <<>>
    /\ issued = <<>>
    /\ last_call = NoCall
    /\ e_pc = "idle"
    /\ e_result = NoneValue
    /\ e_error = ""

\* embedder.py 148-149: nothing to embed
BatchEmpty ==
    /\ e_pc = "start"
    /\ e_texts = <<>>
    /\ e_result' = Some(<<>>)
    /\ e_pc' = "returned"
    /\ UNCHANGED <<e_texts, batch_size, e_offset, all_embeddings, issued, last_call, e_error>>

\* embedder.py 151: all_embeddings = []
BatchStart ==
    /\ e_pc = "start"
    /\ e_texts # <<>>
    /\ e_pc' = "loop"
    /\ UNCHANGED <<e_texts, batch_size, e_offset, all_embeddings, issued, last_call,
                   e_result, e_error>>

\* embedder.py 153-158 and 36-52: the sub-batch is embedded and appended
EmbedBatchReturns ==
    /\ e_pc = "loop"
    /\ e_offset < Len(e_texts)
    /\ \E embeddings \in Responses(Len(Batch)) :
          /\ SameDimension(embeddings)
          /\ last_call' = [texts |-> Batch, outcome |-> "returned", embeddings |-> embeddings]
          /\ all_embeddings' = all_embeddings \o embeddings
    /\ issued' = Append(issued, e_offset)
    /\ e_offset' = e_offset + batch_size
    /\ UNCHANGED <<e_texts, batch_size, e_pc, e_result, e_error>>

\* the failed sub-batch skipped and the loop continued
EmbedBatchMismatchSkipped ==
    /\ e_pc = "loop"
    /\ e_offset < Len(e_texts)
    /\ \E embeddings \in Responses(Len(Batch)) :
          /\ ~SameDimension(embeddings)
          /\ last_call' = [texts |-> Batch, outcome |-> "raised", embeddings |-> <<>>]
    /\ issued' = Append(issued, e_offset)
    /\ e_error' = "ValueError"
    /\ e_offset' = e_offset + batch_size
    /\ UNCHANGED <<e_texts, batch_size, all_embeddings, e_pc, e_result>>

\* embedder.py 46-50 and 54-56: a dimension mismatch inside the sub-batch
EmbedBatchMismatch ==
    /\ e_pc = "loop"
    /\ e_offset < Len(e_texts)
    /\ \E embeddings \in Responses(Len(Batch)) :
          /\ ~SameDimension(embeddings)
          /\ last_call' = [texts |-> Batch, outcome |-> "raised", embeddings |-> <<>>]
    /\ issued' = Append(issued, e_offset)
    /\ e_error' = "ValueError"
    /\ e_pc' = "raised"
    /\ UNCHANGED <<e_texts, batch_size, e_offset, all_embeddings, e_result>>

\* embedder.py 36-40 and 54-56: the service call fails
EmbedBatchServiceError ==
    /\ e_pc = "loop"
    /\ e_offset < Len(e_texts)
    /\ last_call' = [texts |-> Batch, outcome |-> "raised", embeddings |-> <<>>]
    /\ issued' = Append(issued, e_offset)
    /\ e_error' = "ServiceError"
    /\ e_pc' = "raised"
    /\ UNCHANGED <<e_texts, batch_size, e_offset, all_embeddings, e_result>>

\* embedder.py 160: every sub-batch done
BatchReturn ==
    /\ e_pc = "loop"
    /\ e_offset >= Len(e_texts)
    /\ e_result' = Some(all_embeddings)
    /\ e_pc' = "returned"
    /\ UNCHANGED <<e_texts, batch_size, e_offset, all_embeddings, issued, last_call, e_error>>

\* ------------------------------------------------------------------------
\* build_qdrant_filter
\* ------------------------------------------------------------------------
FilterFields == {"module", "source_url", "chunk_index"}

\* a filter value with the type isinstance finds
FilterValues ==
    {[kind |-> "list", value |-> <<"x", "y">>], [kind |-> "list", value |-> <<>>]}
        \cup [kind : {"str"}, value : {"x", ""}]
        \cup [kind : {"num"}, value : {0, 3}]
        \cup [kind : {"other"}, value : {{}}]

\* a dict as the sequence of its items, in insertion order
FilterMaps(n) ==
    {fs \in UNION {[1..m -> FilterFields \X FilterValues] : m \in 0..n} :
        \A i, j \in 1..Len(fs) : fs[i][1] = fs[j][1] => i = j}

\* a number matched as a value
FieldConditionNumberMatched(field_name, field_value) ==
    IF field_value.kind = "list"
    THEN [key |-> field_name, match |-> [any |-> field_value.value]]
    ELSE [key |-> field_name, match |-> [value |-> field_value.value]]

\* vector_search.py 113-136
FieldCondition(field_name, field_value) ==
    IF field_value.kind = "list"
    THEN [key |-> field_name, match |-> [any |-> field_value.value]]
    ELSE IF field_value.kind = "str"
    THEN [key |-> field_name, match |-> [value |-> field_value.value]]
    ELSE IF field_value.kind = "num"
    THEN [key |-> field_name, range |-> [gte |-> field_value.value, lte |-> field_value.value]]
    ELSE [key |-> field_name, match |-> [value |-> field_value.value]]

Conditions(fs) == [i \in 1..Len(fs) |-> FieldCondition(fs[i][1], fs[i][2])]

NoFilter == EmptyDict

FilterCall ==
    /\ filters \in FilterMaps(MaxFields)
    /\ f_pc = "call"
    /\ qdrant_filter = NoFilter

FilterIdle ==
    /\ filters = <<>>
    /\ f_pc = "idle"
    /\ qdrant_filter = NoFilter

\* vector_search.py 110-142
BuildQdrantFilter ==
    /\ f_pc = "call"
    /\ qdrant_filter' = [must |-> Conditions(filters)]
    /\ f_pc' = "returned"
    /\ UNCHANGED filters


\* ------------------------------------------------------------------------
\* validate_retrieval_consistency
\* ------------------------------------------------------------------------
ChunkIds == {"c1", "c2"}

\* the retrieved_chunks of one run of process_query, by their ids
RunChunkLists == UNION {[1..n -> ChunkIds] : n \in 0..MaxHits}

\* line 411: the runs that returned
RECURSIVE SuccessfulRuns(_)
SuccessfulRuns(rs) ==
    IF rs = <<>> THEN <<>>
    ELSE IF Head(rs) # NoneValue THEN <<Head(rs)>> \o SuccessfulRuns(Tail(rs))
         ELSE SuccessfulRuns(Tail(rs))

\* line 416: the number of chunks of every run that returned
ResultCounts(rs) == [i \in 1..Len(SuccessfulRuns(rs)) |-> Len(SuccessfulRuns(rs)[i][1])]

\* counts.count(c)
CountOf(counts, c) == Cardinality({i \in 1..Len(counts) : counts[i] = c})

\* line 417: a most frequent count
ModeCount(counts) ==
    CHOOSE c \in {counts[i] : i \in 1..Len(counts)} :
        \A i \in 1..Len(counts) : CountOf(counts, c) >= CountOf(counts, counts[i])

\* lines 407-420: the share of the runs that returned whose count is the
\* most frequent one
ConsistencyOverRuns(rs) ==
    IF rs = <<>> \/ SuccessfulRuns(rs) = <<>> THEN Zero
    ELSE Frac(CountOf(ResultCounts(rs), ModeCount(ResultCounts(rs))),
              Len(SuccessfulRuns(rs)))

ConsistencyCall ==
    /\ num_runs \in 0..MaxRuns
    /\ run_results = <<>>
    /\ n_pc = "running"
    /\ consistency_score = NoneValue

ConsistencyIdle ==
    /\ num_runs = 0
    /\ run_results = <<>>
    /\ n_pc = "idle"
    /\ consistency_score = NoneValue

\* lines 396-400: a run returns a retrieval result
RunReturns ==
    /\ n_pc = "running"
    /\ Len(run_results) < num_runs
    /\ \E cs \in RunChunkLists : run_results' = Append(run_results, Some(cs))
    /\ UNCHANGED <<num_runs, n_pc, consistency_score>>

\* lines 401-404: a run raises and None is kept in its place
RunFails ==
    /\ n_pc = "running"
    /\ Len(run_results) < num_runs
    /\ run_results' = Append(run_results, NoneValue)
    /\ UNCHANGED <<num_runs, n_pc, consistency_score>>

\* lines 407-423: the score over the runs
ConsistencyReturn ==
    /\ n_pc = "running"
    /\ Len(run_results) >= num_runs
    /\ consistency_score' = Some(ConsistencyOverRuns(run_results))
    /\ n_pc' = "returned"
    /\ UNCHANGED <<num_runs, run_results>>

\* ------------------------------------------------------------------------
\* retry_with_backoff
\* ------------------------------------------------------------------------
\* what func can return, and what it can raise: the first two are in the
\* `exceptions` tuple of the call, the third is not
FuncResults == {"r1", "r2"}
RetriedExceptions == {"Timeout", "ConnectionError"}
OtherExceptions == {"KeyError"}

BackoffFactors == {1, 3}

\* a wait that grows by one factor per attempt
WaitTimeLinear(a) == backoff_factor * (a + 1)

\* line 64: backoff_factor * (2 ** attempt)
WaitTime(a) == backoff_factor * Pow2(a)

RetryCall ==
    /\ max_retries \in -1..MaxRetries
    /\ backoff_factor \in BackoffFactors
    /\ attempt = 0
    /\ outcomes = <<>>
    /\ waits = <<>>
    /\ t_pc = "running"
    /\ t_result = NoneValue
    /\ t_error = ""

RetryIdle ==
    /\ max_retries = 0
    /\ backoff_factor = 1
    /\ attempt = 0
    /\ outcomes = <<>>
    /\ waits = <<>>
    /\ t_pc = "idle"
    /\ t_result = NoneValue
    /\ t_error = ""

\* lines 57-59: func returns and its result is returned at once
FuncReturns ==
    /\ t_pc = "running"
    /\ attempt < max_retries + 1
    /\ \E r \in FuncResults :
          /\ outcomes' = Append(outcomes, [ok |-> TRUE, value |-> r])
          /\ t_result' = Some(r)
    /\ t_pc' = "returned"
    /\ UNCHANGED <<max_retries, backoff_factor, attempt, waits, t_error>>

\* lines 60-65: func raises one of `exceptions` before the last attempt:
\* the call sleeps and goes round again
FuncRaisesRetried ==
    /\ t_pc = "running"
    /\ attempt < max_retries + 1
    /\ attempt # max_retries
    /\ \E e \in RetriedExceptions :
          outcomes' = Append(outcomes, [ok |-> FALSE, value |-> e])
    /\ waits' = Append(waits, WaitTime(attempt))
    /\ attempt' = attempt + 1
    /\ UNCHANGED <<max_retries, backoff_factor, t_pc, t_result, t_error>>

\* lines 60-62: func raises one of `exceptions` on the last attempt: the
\* exception is raised again
FuncRaisesLast ==
    /\ t_pc = "running"
    /\ attempt < max_retries + 1
    /\ attempt = max_retries
    /\ \E e \in RetriedExceptions :
          /\ outcomes' = Append(outcomes, [ok |-> FALSE, value |-> e])
          /\ t_error' = e
    /\ t_pc' = "raised"
    /\ UNCHANGED <<max_retries, backoff_factor, attempt, waits, t_result>>

\* lines 58-60: func raises an exception the except clause does not name
FuncRaisesOther ==
    /\ t_pc = "running"
    /\ attempt < max_retries + 1
    /\ \E e \in OtherExceptions :
          /\ outcomes' = Append(outcomes, [ok |-> FALSE, value |-> e])
          /\ t_error' = e
    /\ t_pc' = "raised"
    /\ UNCHANGED <<max_retries, backoff_factor, attempt, waits, t_result>>

\* lines 57, 67: the range is used up (it is empty when max_retries < 0)
RetryFallsThrough ==
    /\ t_pc = "running"
    /\ ~(attempt < max_retries + 1)
    /\ t_pc' = "returned"
    /\ UNCHANGED <<max_retries, backoff_factor, attempt, outcomes, waits, t_result, t_error>>

\* ------------------------------------------------------------------------
\* apply_metadata_filters
\* ------------------------------------------------------------------------
\* Python values with their type; Absent is the None that dict.get returns
\* for a key the dict does not hold
Absent == [kind |-> "none", value |-> 0]
Str(x) == [kind |-> "str", value |-> x]
Num(x) == [kind |-> "num", value |-> x]
Bool(x) == [kind |-> "bool", value |-> x]

MetaFields == {"module", "chapter"}

\* chunk dictionaries: a metadata dict and the top-level fields
MetaChunks ==
    [metadata : [module : {Absent, Str(""), Str("m")},
                 chapter : {Absent, Num(0), Bool(FALSE)}],
     top : [module : {Absent, Str("m")}, chapter : {Absent}]]

MetaChunkLists(n) == UNION {[1..k -> MetaChunks] : k \in 0..n}

\* filter values: single values and a list of allowed values
MetaFilterValues ==
    {Str(""), Str("m"), Num(0), [kind |-> "list", value |-> <<Num(0), Str("m")>>]}

\* the filters dict as the sequence of its items
MetaFilterMaps ==
    {fs \in UNION {[1..k -> MetaFields \X MetaFilterValues] : k \in 0..Cardinality(MetaFields)} :
        \A i, j \in 1..Len(fs) : fs[i][1] = fs[j][1] => i = j}

\* bool(v) is False
Falsy(v) ==
    \/ v.kind = "none"
    \/ v.kind = "str" /\ v.value = ""
    \/ v.kind = "num" /\ v.value = 0
    \/ v.kind = "bool" /\ ~v.value

\* a number or a bool as the number Python compares
NumOf(v) == IF v.kind = "bool" THEN (IF v.value THEN 1 ELSE 0) ELSE v.value

\* a == b
PyEqual(a, b) ==
    IF a.kind \in {"num", "bool"} /\ b.kind \in {"num", "bool"} THEN NumOf(a) = NumOf(b)
    ELSE a.kind = b.kind /\ a.value = b.value

\* a in list
PyIn(a, list) == \E i \in 1..Len(list) : PyEqual(a, list[i])

\* line 198: chunk.get('metadata', {}).get(field_name) or chunk.get(field_name)
ChunkValue(chunk, field_name) ==
    IF ~Falsy(chunk.metadata[field_name]) THEN chunk.metadata[field_name]
    ELSE chunk.top[field_name]

\* lines 200-208: the test of one filter field
FieldPasses(chunk, field_name, field_value) ==
    IF field_value.kind = "list" THEN PyIn(ChunkValue(chunk, field_name), field_value.value)
    ELSE PyEqual(ChunkValue(chunk, field_name), field_value)

\* lines 195-211
IncludeChunk(chunk, fs) == \A i \in 1..Len(fs) : FieldPasses(chunk, fs[i][1], fs[i][2])

RECURSIVE FilteredChunks(_, _)
FilteredChunks(cs, fs) ==
    IF cs = <<>> THEN <<>>
    ELSE IF IncludeChunk(Head(cs), fs) THEN <<Head(cs)>> \o FilteredChunks(Tail(cs), fs)
         ELSE FilteredChunks(Tail(cs), fs)

MetaFilterCall ==
    /\ m_chunks \in MetaChunkLists(MaxFiltered)
    /\ m_filters \in MetaFilterMaps
    /\ m_pc = "call"
    /\ m_result = <<>>

MetaFilterIdle ==
    /\ m_chunks = <<>>
    /\ m_filters = <<>>
    /\ m_pc = "idle"
    /\ m_result = <<>>

\* vector_search.py 173-211
ApplyMetadataFilters ==
    /\ m_pc = "call"
    /\ m_result' = IF m_filters = <<>> THEN m_chunks ELSE FilteredChunks(m_chunks, m_filters)
    /\ m_pc' = "returned"
    /\ UNCHANGED <<m_chunks, m_filters>>

\* ------------------------------------------------------------------------
\* chunk_content_chunks
\* ------------------------------------------------------------------------
\* the texts of the source documents: empty, short, blank, cut hard, cut
\* after a sentence mark, cut after a paragraph break
DocTexts ==
    { <<>>,
      <<"a", "a">>,
      <<" ", " ", " ">>,
      <<"a", "a", "a", "a", "a", "a">>,
      <<" ", ".", "a", "a", "a", "a">>,
      <<"a", "a", "a", "\n", "\n", "a">> }

\* the metadata a source document brings along
DocMetadata == {EmptyDict, [section |-> "s", chunk_index |-> 9]}

Documents ==
    [id : {"P", "Q"}, text_content : DocTexts, source_url : {"u"}, page_title : {"p"},
     created_at : {"d"}, metadata : DocMetadata]

DocumentLists(n) == UNION {[1..k -> Documents] : k \in 0..n}

\* the sizes the documents are chunked with
DocChunkSizes == {2, 5}

\* ids counted from one
ChunkIdOneBased(parent_id, idx) == parent_id \o "_chunk_" \o ToString(idx + 1)

\* line 94: f"{original_chunk.id}_chunk_{idx}"
ChunkId(parent_id, idx) == parent_id \o "_chunk_" \o ToString(idx)

\* lines 100-106: the parent's metadata with the four keys set over it
ChunkedMetadata(original_chunk, idx, total) ==
    [k \in DOMAIN original_chunk.metadata \cup
            {"original_chunk_id", "chunk_index", "total_chunks", "is_chunked"} |->
        CASE k = "original_chunk_id" -> original_chunk.id
          [] k = "chunk_index" -> idx
          [] k = "total_chunks" -> total
          [] k = "is_chunked" -> TRUE
          [] OTHER -> original_chunk.metadata[k]]

\* lines 93-107: the ContentChunk made of the idx-th text chunk (from 0)
ChunkedChunk(original_chunk, text_chunks, idx) ==
    [id |-> ChunkId(original_chunk.id, idx),
     text_content |-> text_chunks[idx + 1],
     source_url |-> original_chunk.source_url,
     page_title |-> original_chunk.page_title,
     chunk_index |-> idx,
     created_at |-> original_chunk.created_at,
     metadata |-> ChunkedMetadata(original_chunk, idx, Len(text_chunks))]

\* lines 91-108: the chunks of one document, in the order of enumerate
ChunkedChunks(original_chunk, text_chunks) ==
    [i \in 1..Len(text_chunks) |-> ChunkedChunk(original_chunk, text_chunks, i - 1)]

ChunkContentCall ==
    /\ content_chunks \in DocumentLists(MaxDocs)
    /\ chunk_size \in DocChunkSizes
    /\ overlap \in 0..1
    /\ text = <<>>
    /\ start = 0
    /\ chunks = <<>>
    /\ cuts = <<>>
    /\ pc = "idle"
    /\ result = <<>>
    /\ doc_index = 0
    /\ text_chunks_log = <<>>
    /\ chunked_content = <<>>
    /\ k_pc = "next"

ContentChunksIdle ==
    /\ content_chunks = <<>>
    /\ doc_index = 0
    /\ text_chunks_log = <<>>
    /\ chunked_content = <<>>
    /\ k_pc = "idle"

\* lines 88-89: chunk_text is called on the next document's text
TakeDocument ==
    /\ k_pc = "next"
    /\ doc_index < Len(content_chunks)
    /\ text' = content_chunks[doc_index + 1].text_content
    /\ start' = 0
    /\ chunks' = <<>>
    /\ cuts' = <<>>
    /\ result' = <<>>
    /\ pc' = "entry"
    /\ k_pc' = "chunking"
    /\ UNCHANGED <<chunk_size, overlap, content_chunks, doc_index, text_chunks_log,
                   chunked_content>>

\* lines 89-108: chunk_text has returned; one ContentChunk per text chunk is
\* appended
EmitChunked ==
    /\ k_pc = "chunking"
    /\ pc = "done"
    /\ chunked_content' =
          chunked_content \o ChunkedChunks(content_chunks[doc_index + 1], result)
    /\ text_chunks_log' = Append(text_chunks_log, result)
    /\ doc_index' = doc_index + 1
    /\ k_pc' = "next"
    /\ UNCHANGED <<cvars, content_chunks>>

\* lines 88, 110-111: the documents are used up
ReturnChunked ==
    /\ k_pc = "next"
    /\ ~(doc_index < Len(content_chunks))
    /\ k_pc' = "returned"
    /\ UNCHANGED <<cvars, content_chunks, doc_index, text_chunks_log, chunked_content>>

\* ------------------------------------------------------------------------
\* chat_endpoint (POST /api/chat)
\* ------------------------------------------------------------------------
\* what str(uuid.uuid4()) can return
Uuids == {"u1", "u2"}

\* ChatRequest.session_id: Optional[str], None when left out
RequestSessionIds == {PyNone, "", "s1"} \cup Uuids

\* ChatRequest.question: str
Questions == {"", " ", "q"}

\* line 37: not request.question or not request.question.strip()
QuestionEmpty(question) == question \in {"", " "}

\* a fresh id for every request
ResponseSessionIdsFresh(session_id) == Uuids

\* line 41: request.session_id or str(uuid.uuid4())
ResponseSessionIds(session_id) == IF Truthy(session_id) THEN {session_id} ELSE Uuids

ChatIdle == chat_log = <<>>

\* lines 37-38: an empty question is answered 400
ChatRejected ==
    /\ Len(chat_log) < MaxRequests
    /\ \E question \in Questions, session_id \in RequestSessionIds :
          /\ QuestionEmpty(question)
          /\ chat_log' = Append(chat_log, [question |-> question, session_id |-> session_id,
                                           status |-> 400, response_session_id |-> PyNone])

\* lines 44-52, 84-87: the agent raises and the request is answered 500
ChatFailed ==
    /\ Len(chat_log) < MaxRequests
    /\ \E question \in Questions, session_id \in RequestSessionIds :
          /\ ~QuestionEmpty(question)
          /\ chat_log' = Append(chat_log, [question |-> question, session_id |-> session_id,
                                           status |-> 500, response_session_id |-> PyNone])

\* lines 41-79: the agent answers and the response carries session_id
ChatAnswered ==
    /\ Len(chat_log) < MaxRequests
    /\ \E question \in Questions, session_id \in RequestSessionIds :
          /\ ~QuestionEmpty(question)
          /\ \E sid \in ResponseSessionIds(session_id) :
                chat_log' = Append(chat_log, [question |-> question, session_id |-> session_id,
                                             status |-> 200, response_session_id |-> sid])

\* ------------------------------------------------------------------------
\* ask_question (POST /ask of the RAG agent service)
\* ------------------------------------------------------------------------
\* line 76: max_history_length: int = 10
max_history_length == 10

\* the last n elements of a list: s[-n:] for n > 0
LastN(s, n) == IF Len(s) <= n THEN s ELSE SubSeq(s, Len(s) - n + 1, Len(s))

\* lines 119-145: the id of the session get_session returns
SessionIdsOf(session_id) == IF Truthy(session_id) THEN {session_id} ELSE Uuids

\* lines 119-145: the store after get_session; a generated id, or an id the
\* store lacks, gets a new session with an empty history
StoreAfterGet(session_id, sid) ==
    IF Truthy(session_id) /\ sid \in DOMAIN session_store
    THEN session_store
    ELSE [k \in DOMAIN session_store \cup {sid} |->
             IF k = sid THEN <<>> ELSE session_store[k]]

\* line 202: len(session.conversation_history) + 1
NextTurnId(history) == Len(history) + 1

\* lines 209-211: append, then keep the last max_history_length turns
HistoryAfterTurn(history, turn) ==
    LET appended == Append(history, turn)
    IN  IF Len(appended) > max_history_length
        THEN LastN(appended, max_history_length)
        ELSE appended

AgentIdle ==
    /\ session_store = EmptyDict
    /\ asks = 0

\* lines 157-214: the request is answered and its turn is stored
AskAnswered ==
    /\ asks < MaxAsks
    /\ asks' = asks + 1
    /\ \E session_id \in RequestSessionIds :
          \E sid \in SessionIdsOf(session_id) :
              LET store == StoreAfterGet(session_id, sid)
                  turn == [turn_id |-> NextTurnId(store[sid]), question |-> "q"]
              IN  session_store' = [store EXCEPT ![sid] = HistoryAfterTurn(store[sid], turn)]

\* lines 157-177, 216-218: the session is fetched or created, then the agent
\* raises and the request is answered 500
AskFailed ==
    /\ asks < MaxAsks
    /\ asks' = asks + 1
    /\ \E session_id \in RequestSessionIds :
          \E sid \in SessionIdsOf(session_id) :
              session_store' = StoreAfterGet(session_id, sid)

\* ------------------------------------------------------------------------
\* The added components at rest
\* ------------------------------------------------------------------------
ServiceIdle == ChatIdle /\ AgentIdle

ExtraIdle ==
    ConsistencyIdle /\ RetryIdle /\ MetaFilterIdle /\ ContentChunksIdle /\ ServiceIdle

\* ------------------------------------------------------------------------
\* Specifications
\* ------------------------------------------------------------------------
\* one chunk_text call on any text and any admissible sizes
Init == ChunkInit /\ QueryIdle /\ ValidationIdle /\ EmbedIdle /\ FilterIdle /\ ExtraIdle

Next ==
    \/ ReturnShort /\ UNCHANGED <<qvars, vvars, evars, fvars, xvars>>
    \/ EnterLoop /\ UNCHANGED <<qvars, vvars, evars, fvars, xvars>>
    \/ CutFinal /\ UNCHANGED <<qvars, vvars, evars, fvars, xvars>>
    \/ CutSentence /\ UNCHANGED <<qvars, vvars, evars, fvars, xvars>>
    \/ CutParagraph /\ UNCHANGED <<qvars, vvars, evars, fvars, xvars>>
    \/ CutHard /\ UNCHANGED <<qvars, vvars, evars, fvars, xvars>>
    \/ ExitLoop /\ UNCHANGED <<qvars, vvars, evars, fvars, xvars>>
    \/ ReturnChunks /\ UNCHANGED <<qvars, vvars, evars, fvars, xvars>>

Spec == Init /\ [][Next]_vars

\* one chunk_text call on a longer text of paragraphs
ParagraphSpecInit ==
    ParagraphInit /\ QueryIdle /\ ValidationIdle /\ EmbedIdle /\ FilterIdle /\ ExtraIdle

ParagraphSpec == ParagraphSpecInit /\ [][Next]_vars

\* one process_query call on any arguments, against any embedding service
\* and any vector index
QueryInit == QueryCall /\ ChunkIdle /\ ValidationIdle /\ EmbedIdle /\ FilterIdle /\ ExtraIdle

QueryNext ==
    \/ ValidateReject /\ UNCHANGED <<cvars, vvars, evars, fvars, xvars>>
    \/ ValidateAccept /\ UNCHANGED <<cvars, vvars, evars, fvars, xvars>>
    \/ EmbedReturns /\ UNCHANGED <<cvars, vvars, evars, fvars, xvars>>
    \/ EmbedReturnsNone /\ UNCHANGED <<cvars, vvars, evars, fvars, xvars>>
    \/ EmbedRaises /\ UNCHANGED <<cvars, vvars, evars, fvars, xvars>>
    \/ SearchReturns /\ UNCHANGED <<cvars, vvars, evars, fvars, xvars>>
    \/ SearchRaises /\ UNCHANGED <<cvars, vvars, evars, fvars, xvars>>
    \/ Assemble /\ UNCHANGED <<cvars, vvars, evars, fvars, xvars>>

QuerySpec == QueryInit /\ [][QueryNext]_vars

\* a returned retrieval result validated, any number of times, and reported
ValidationInit == QueryReturned /\ ValidationReady /\ ChunkIdle /\ EmbedIdle /\ FilterIdle /\ ExtraIdle

ValidationNext ==
    \/ ValidateResult /\ UNCHANGED <<cvars, evars, fvars, xvars>>
    \/ GenerateReport /\ UNCHANGED <<cvars, evars, fvars, xvars>>

ValidationSpec == ValidationInit /\ [][ValidationNext]_vars

\* batch_embed called with any texts and any batch size
EmbedInit == EmbedCall /\ ChunkIdle /\ QueryIdle /\ ValidationIdle /\ FilterIdle /\ ExtraIdle

EmbedNext ==
    \/ BatchEmpty /\ UNCHANGED <<cvars, qvars, vvars, fvars, xvars>>
    \/ BatchStart /\ UNCHANGED <<cvars, qvars, vvars, fvars, xvars>>
    \/ EmbedBatchReturns /\ UNCHANGED <<cvars, qvars, vvars, fvars, xvars>>
    \/ EmbedBatchMismatch /\ UNCHANGED <<cvars, qvars, vvars, fvars, xvars>>
    \/ EmbedBatchServiceError /\ UNCHANGED <<cvars, qvars, vvars, fvars, xvars>>
    \/ BatchReturn /\ UNCHANGED <<cvars, qvars, vvars, fvars, xvars>>

EmbedSpec == EmbedInit /\ [][EmbedNext]_vars

\* build_qdrant_filter called with any filter mapping
FilterInit == FilterCall /\ ChunkIdle /\ QueryIdle /\ ValidationIdle /\ EmbedIdle /\ ExtraIdle

FilterNext == BuildQdrantFilter /\ UNCHANGED <<cvars, qvars, vvars, evars, xvars>>

FilterSpec == FilterInit /\ [][FilterNext]_vars

\* the pipeline from the index's answer on: the result is assembled,
\* validated and reported
PipelineInit ==
    SearchReturned /\ ValidationReady /\ ChunkIdle /\ EmbedIdle /\ FilterIdle /\ ExtraIdle

PipelineNext ==
    \/ Assemble /\ UNCHANGED <<cvars, vvars, evars, fvars, xvars>>
    \/ ValidateResult /\ UNCHANGED <<cvars, evars, fvars, xvars>>
    \/ GenerateReport /\ UNCHANGED <<cvars, evars, fvars, xvars>>

PipelineSpec == PipelineInit /\ [][PipelineNext]_vars

\* the retrieval core at rest
CoreIdle == ChunkIdle /\ QueryIdle /\ ValidationIdle /\ EmbedIdle /\ FilterIdle

corevars == <<cvars, qvars, vvars, evars, fvars>>

\* validate_retrieval_consistency called with any number of runs, each run
\* returning any list of chunks or failing
ConsistencyInit ==
    ConsistencyCall /\ CoreIdle /\ RetryIdle /\ MetaFilterIdle /\ ContentChunksIdle /\ ServiceIdle

ConsistencyNext ==
    \/ RunReturns /\ UNCHANGED <<corevars, tvars, mvars, kvars, svars>>
    \/ RunFails /\ UNCHANGED <<corevars, tvars, mvars, kvars, svars>>
    \/ ConsistencyReturn /\ UNCHANGED <<corevars, tvars, mvars, kvars, svars>>

ConsistencySpec == ConsistencyInit /\ [][ConsistencyNext]_vars

\* retry_with_backoff called with any max_retries and factor, on a func that
\* returns or raises as it likes
RetryInit ==
    RetryCall /\ CoreIdle /\ ConsistencyIdle /\ MetaFilterIdle /\ ContentChunksIdle /\ ServiceIdle

RetryNext ==
    \/ FuncReturns /\ UNCHANGED <<corevars, nvars, mvars, kvars, svars>>
    \/ FuncRaisesRetried /\ UNCHANGED <<corevars, nvars, mvars, kvars, svars>>
    \/ FuncRaisesLast /\ UNCHANGED <<corevars, nvars, mvars, kvars, svars>>
    \/ FuncRaisesOther /\ UNCHANGED <<corevars, nvars, mvars, kvars, svars>>
    \/ RetryFallsThrough /\ UNCHANGED <<corevars, nvars, mvars, kvars, svars>>

RetrySpec == RetryInit /\ [][RetryNext]_vars

\* apply_metadata_filters called with any chunks and any filters
MetaFilterInit ==
    MetaFilterCall /\ CoreIdle /\ ConsistencyIdle /\ RetryIdle /\ ContentChunksIdle /\ ServiceIdle

MetaFilterNext == ApplyMetadataFilters /\ UNCHANGED <<corevars, nvars, tvars, kvars, svars>>

MetaFilterSpec == MetaFilterInit /\ [][MetaFilterNext]_vars

\* chunk_content_chunks called on any list of documents: chunk_text runs on
\* each document in turn
ContentChunksInit ==
    /\ ChunkContentCall
    /\ QueryIdle /\ ValidationIdle /\ EmbedIdle /\ FilterIdle
    /\ ConsistencyIdle /\ RetryIdle /\ MetaFilterIdle /\ ServiceIdle

othervars == <<qvars, vvars, evars, fvars, nvars, tvars, mvars, svars>>

ContentChunksNext ==
    \/ TakeDocument /\ UNCHANGED othervars
    \/ ReturnShort /\ UNCHANGED <<othervars, kvars>>
    \/ EnterLoop /\ UNCHANGED <<othervars, kvars>>
    \/ CutFinal /\ UNCHANGED <<othervars, kvars>>
    \/ CutSentence /\ UNCHANGED <<othervars, kvars>>
    \/ CutParagraph /\ UNCHANGED <<othervars, kvars>>
    \/ CutHard /\ UNCHANGED <<othervars, kvars>>
    \/ ExitLoop /\ UNCHANGED <<othervars, kvars>>
    \/ ReturnChunks /\ UNCHANGED <<othervars, kvars>>
    \/ EmitChunked /\ UNCHANGED othervars
    \/ ReturnChunked /\ UNCHANGED othervars

ContentChunksSpec == ContentChunksInit /\ [][ContentChunksNext]_vars

\* any sequence of POST /api/chat requests
ChatInit ==
    /\ ChatIdle /\ AgentIdle /\ CoreIdle
    /\ ConsistencyIdle /\ RetryIdle /\ MetaFilterIdle /\ ContentChunksIdle

ChatNext ==
    \/ ChatRejected /\ UNCHANGED <<corevars, nvars, tvars, mvars, kvars, avars>>
    \/ ChatFailed /\ UNCHANGED <<corevars, nvars, tvars, mvars, kvars, avars>>
    \/ ChatAnswered /\ UNCHANGED <<corevars, nvars, tvars, mvars, kvars, avars>>

ChatSpec == ChatInit /\ [][ChatNext]_vars

\* any sequence of POST /ask requests
AgentInit ==
    /\ AgentIdle /\ ChatIdle /\ CoreIdle
    /\ ConsistencyIdle /\ RetryIdle /\ MetaFilterIdle /\ ContentChunksIdle

AgentNext ==
    \/ AskAnswered /\ UNCHANGED <<corevars, nvars, tvars, mvars, kvars, hvars>>
    \/ AskFailed /\ UNCHANGED <<corevars, nvars, tvars, mvars, kvars, hvars>>

AgentSpec == AgentInit /\ [][AgentNext]_vars

\* ------------------------------------------------------------------------
\* Properties of chunk_text
\* ------------------------------------------------------------------------
\* C1: the cursor `start` is strictly greater after every loop iteration
\* than before it
CursorAdvances == [][pc = "loop" /\ pc' = "loop" => start' > start]_vars

\* C2: when a text longer than chunk_size has been chunked, every character
\* that is not whitespace lies in one of the slices taken from the text
Covered(i) == \E k \in 1..Len(cuts) : cuts[k][1] <= i /\ i <= cuts[k][2]

ChunkingCoverage ==
    (pc = "done" /\ Len(text) > chunk_size) =>
        \A i \in 1..Len(text) : text[i] \notin Whitespace => Covered(i)

\* C3: no element of the returned sequence is empty after trimming
IsBlank(t) == \A i \in 1..Len(t) : t[i] \in Whitespace

NoBlankChunk == pc = "done" => \A k \in 1..Len(result) : ~IsBlank(result[k])

\* C4: a non-empty text no longer than chunk_size comes back as the single
\* chunk [text], untouched
ShortTextExact ==
    (pc = "done" /\ text # <<>> /\ Len(text) <= chunk_size) => result = <<text>>

ShortTextWitness ==
    /\ pc = "done"
    /\ Len(text) = 3
    /\ chunk_size = 3
    /\ text[1] \in Whitespace
    /\ text[3] \in Whitespace
    /\ result = <<text>>

\* C5: every chunk taken from the text, and every chunk returned, is at most
\* chunk_size characters long
BoundedChunks ==
    /\ \A k \in 1..Len(chunks) : Len(chunks[k]) <= chunk_size
    /\ \A k \in 1..Len(result) : Len(result[k]) <= chunk_size

BoundedChunksWitness ==
    /\ pc = "done"
    /\ Len(text) > chunk_size
    /\ Len(result) >= 2
    /\ Len(result[1]) = chunk_size
    /\ overlap > 0

\* the end (0-based, exclusive) of the slice the last iteration took
LastCutEnd == cuts[Len(cuts)][2]

\* an iteration of the loop that cuts before the end of the text
CutsInside == pc = "loop" /\ Len(cuts') = Len(cuts) + 1 /\ WindowEnd < Len(text)

\* 1-based positions of the sentence marks of w that whitespace follows
MarksBeforeSpace(w) ==
    {i \in 1..(Len(w) - 1) : w[i] \in Punct /\ w[i + 1] \in Whitespace}

LastMark(w) ==
    CHOOSE i \in MarksBeforeSpace(w) : \A j \in MarksBeforeSpace(w) : i >= j

\* C25: whenever the window holds a sentence mark followed by whitespace,
\* the iteration cuts immediately after the last such mark of the window
CutsAfterLastMark ==
    [][(CutsInside /\ MarksBeforeSpace(Window) # {}) =>
          LastCutEnd' = start + LastMark(Window)]_vars

\* C26: when the sentence search finds nothing in the window, the iteration
\* cuts just after the window's last double newline if that break lies past
\* half of chunk_size, and exactly chunk_size characters after the cursor
\* otherwise
BreakPastHalf == RFindParagraph(Window) # -1 /\ 2 * RFindParagraph(Window) > chunk_size

OverlapExact ==
    [][(CutsInside /\ pc' = "loop") =>
          start' = IF LastCutEnd' - overlap > start THEN LastCutEnd' - overlap
                   ELSE start + 1]_vars

\* ------------------------------------------------------------------------
\* Properties of process_query
\* ------------------------------------------------------------------------
InvalidArguments ==
    \/ IsBlank(query_text)
    \/ top_k < 1
    \/ top_k > 100
    \/ (min_score # NoneValue /\ (min_score[1] < 0 \/ min_score[1] > 10))

\* C6: the call is rejected with an invalid-argument error exactly when the
\* query text is blank, top_k is outside 1..100 or a given min_score is
\* outside [0,1]
RejectsExactlyInvalid ==
    q_pc \in {"embed", "search", "assemble", "returned", "raised"} =>
        (q_error \in ValidationErrors <=> InvalidArguments)

RejectsWitness ==
    /\ q_pc = "raised"
    /\ top_k = 101
    /\ ~IsBlank(query_text)
    /\ min_score = Some(10)
    /\ q_error \in ValidationErrors

\* C7: when the arguments are rejected, neither the embedding service nor
\* the index has been called
NoCallBeforeValidation ==
    (InvalidArguments \/ q_error \in ValidationErrors) =>
        (embed_calls = 0 /\ search_calls = 0)

NoCallWitness ==
    /\ q_pc = "raised"
    /\ IsBlank(query_text)
    /\ q_error = "Query text cannot be empty"
    /\ embed_calls = 0
    /\ search_calls = 0

\* C8: a call that returns went through the four stages in order, with one
\* embedding call and then one search call; the search never starts before
\* the embedding is there
PipelineOrder ==
    /\ q_pc = "returned" =>
          /\ stages = <<"Validated", "Embedded", "Searched", "Assembled">>
          /\ embed_calls = 1
          /\ search_calls = 1
    /\ embed_calls <= 1
    /\ search_calls <= 1
    /\ search_calls = 1 => (embed_calls = 1 /\ query_embedding # NoneValue)

PipelineWitness ==
    /\ q_pc = "returned"
    /\ q_result # NoResult
    /\ Len(points) = 2
    /\ embed_calls = 1
    /\ search_calls = 1

\* C9: a failed or empty embedding leads to no search and no result, a
\* failed search to no result; the error is what the caller gets
EmbeddingErrors == {"embedding service error", "No embeddings returned from Cohere API"}

FailuresAbort ==
    /\ q_error \in EmbeddingErrors =>
          (search_calls = 0 /\ q_result = NoResult /\ q_pc = "raised")
    /\ q_error = "vector index error" => (q_result = NoResult /\ q_pc = "raised")
    /\ query_embedding = NoneValue => (search_calls = 0 /\ q_result = NoResult)
    /\ q_pc = "raised" => q_error # ""
    /\ q_result # NoResult => q_error = ""

FailuresWitness ==
    /\ q_pc = "raised"
    /\ q_error = "No embeddings returned from Cohere API"
    /\ embed_calls = 1
    /\ search_calls = 0
    /\ q_result = NoResult

\* C10: the chunks of a result are the hits of the index in the order the
\* index gave them, and relevance_scores runs parallel to them
OrderPreserved ==
    q_pc = "returned" =>
        /\ Len(q_result.retrieved_chunks) = Len(points)
        /\ Len(q_result.relevance_scores) = Len(points)
        /\ \A i \in 1..Len(points) :
              /\ q_result.retrieved_chunks[i].id = points[i].id
              /\ q_result.retrieved_chunks[i].relevance_score = points[i].score
              /\ q_result.relevance_scores[i] = q_result.retrieved_chunks[i].relevance_score

OrderWitness ==
    /\ q_pc = "returned"
    /\ Len(points) = 2
    /\ points[1].score < points[2].score
    /\ points[1].id # points[2].id
    /\ q_result.retrieved_chunks[1].id = points[1].id

\* ------------------------------------------------------------------------
\* Properties of validate_retrieval_result and generate_validation_report
\* ------------------------------------------------------------------------
Validated == v_pc = "validated"

NumChunks == Len(q_result.retrieved_chunks)

RECURSIVE SumTenths(_)
SumTenths(cs) ==
    IF cs = <<>> THEN 0 ELSE Head(cs).relevance_score + SumTenths(Tail(cs))

\* the arithmetic mean of the relevance scores of a result that has chunks
RawMean == Frac(SumTenths(q_result.retrieved_chunks), ScoreHigh * NumChunks)

\* C15 as stated: precision_score is the mean of the relevance scores (0.0
\* without chunks) with no clamping, whatever the range of the scores.
PrecisionIsRawMean ==
    Validated =>
        validation.precision_score = IF NumChunks = 0 THEN Zero ELSE RawMean

\* C15: precision_score is the mean of the relevance scores clamped to [0,1]
\* (0.0 without chunks): 0.0 for a negative mean, 1.0 for a mean above 1.0,
\* the mean itself otherwise, so that it never leaves [0,1].
PrecisionIsClampedMean ==
    Validated =>
        /\ validation.precision_score =
              IF NumChunks = 0 THEN Zero
              ELSE IF FLt(RawMean, Zero) THEN Zero
              ELSE IF FLt(One, RawMean) THEN One
              ELSE RawMean
        /\ FLe(Zero, validation.precision_score)
        /\ FLe(validation.precision_score, One)

PrecisionClampedWitness ==
    /\ Validated
    /\ NumChunks > 0
    /\ FLt(One, RawMean)
    /\ validation.precision_score = One

ScoresInUnitRange ==
    \A i \in 1..NumChunks :
        /\ q_result.retrieved_chunks[i].relevance_score >= ScoreLow
        /\ q_result.retrieved_chunks[i].relevance_score <= ScoreHigh

\* C16: when every relevance score lies in [0,1], each of the four scores
\* lies in [0,1], for every number of chunks and every duration.
ScoresInRange ==
    (Validated /\ ScoresInUnitRange) =>
        /\ FLe(Zero, validation.precision_score)
        /\ FLe(validation.precision_score, One)
        /\ FLe(Zero, validation.traceability_score)
        /\ FLe(validation.traceability_score, One)
        /\ RGeRat(validation.consistency_score, Zero)
        /\ RLeRat(validation.consistency_score, One)
        /\ FLe(Zero, validation.latency_score)
        /\ FLe(validation.latency_score, One)

ScoresInRangeWitness ==
    /\ Validated
    /\ ScoresInUnitRange
    /\ NumChunks >= 2
    /\ q_result.retrieved_chunks[1].relevance_score # q_result.retrieved_chunks[2].relevance_score
    /\ retrieval_time_ms = 1000
    /\ validation.latency_score = One

\* the population variance of the relevance scores: (n * sum s^2 - (sum s)^2) / n^2
RECURSIVE SumSquareTenths(_)
SumSquareTenths(cs) ==
    IF cs = <<>> THEN 0
    ELSE Head(cs).relevance_score * Head(cs).relevance_score + SumSquareTenths(Tail(cs))

PopulationVariance ==
    Frac(NumChunks * SumSquareTenths(q_result.retrieved_chunks)
            - SumTenths(q_result.retrieved_chunks) * SumTenths(q_result.retrieved_chunks),
         NumChunks * NumChunks * ScoreHigh * ScoreHigh)

AllScoresEqual ==
    \A i, j \in 1..NumChunks :
        q_result.retrieved_chunks[i].relevance_score = q_result.retrieved_chunks[j].relevance_score

\* C17: consistency_score is 1.0 with fewer than 2 chunks or with all scores
\* equal, is below 1.0 as soon as two scores differ, and is then
\* max(0, 1 - s / 0.5) for the population standard deviation s: 0 when
\* s >= 0.5, and otherwise the c <= 1 with (1 - c)^2 = 4 * variance.
ConsistencyFormula ==
    Validated =>
        LET c == validation.consistency_score
        IN  /\ (NumChunks < 2 \/ AllScoresEqual) => REqRat(c, One)
            /\ ~AllScoresEqual => ~RGeRat(c, One)
            /\ (~AllScoresEqual /\ FLe(Frac(1, 4), PopulationVariance)) => REqRat(c, Zero)
            /\ (~AllScoresEqual /\ FLt(PopulationVariance, Frac(1, 4))) =>
                  /\ c.rat = One
                  /\ FLe(c.coef, Zero)
                  /\ FMul(FMul(c.coef, c.coef), c.rad) = FMul(Frac(4, 1), PopulationVariance)

\* the score 1 for t <= 2000, 0 for t >= 6000, (6000 - t) / 4000 in between
LatencyExpected(t) ==
    IF t <= TargetMs THEN One
    ELSE IF t >= 3 * TargetMs THEN Zero
    ELSE Frac(3 * TargetMs - t, 2 * TargetMs)

\* C18: latency_score is 1.0 up to 2000 ms (0 and below included), 0.0 from
\* 6000 ms on, 1 - 0.5 * (t / 2000 - 1) in between, and never increases
\* when the duration increases.
LatencyFormula ==
    Validated =>
        /\ validation.latency_score = LatencyExpected(retrieval_time_ms)
        /\ \A t \in Durations :
              t <= retrieval_time_ms =>
                  FLe(validation.latency_score, CalculateLatencyScore(t))

LatencyWitness ==
    /\ Validated
    /\ retrieval_time_ms > TargetMs
    /\ retrieval_time_ms < 3 * TargetMs
    /\ FLt(Zero, validation.latency_score)
    /\ FLt(validation.latency_score, One)

\* C19: overall_quality is the unweighted mean of the four scores; the status
\* is PASS exactly when it is >= 0.7, WARNING exactly when it is >= 0.5 and
\* < 0.7, FAIL otherwise; every report carries one of the three.
VerdictBands ==
    /\ Validated =>
          /\ RScale(validation.overall_quality, Frac(4, 1)) =
                RAddRat(validation.consistency_score,
                        FAdd(validation.precision_score,
                             FAdd(validation.traceability_score, validation.latency_score)))
    /\ report_status # "" =>
          /\ report_status \in {"PASS", "WARNING", "FAIL"}
          /\ report_status = "PASS" <=> RGeRat(validation.overall_quality, Frac(7, 10))
          /\ report_status = "WARNING" <=>
                /\ RGeRat(validation.overall_quality, Frac(1, 2))
                /\ ~RGeRat(validation.overall_quality, Frac(7, 10))
          /\ report_status = "FAIL" <=> ~RGeRat(validation.overall_quality, Frac(1, 2))

VerdictWitness ==
    /\ report_status = "WARNING"
    /\ REqRat(validation.overall_quality, Frac(1, 2))

\* C20: a result without chunks is validated without error: precision 0.0,
\* traceability 0.0, consistency 1.0 and overall_quality (1 + latency) / 4,
\* whatever the duration.
EmptyResultScores ==
    NumChunks = 0 =>
        /\ v_pc # "ready" => Validated
        /\ Validated =>
              /\ DOMAIN validation.validation_details =
                    {"precision_details", "traceability_details", "consistency_details",
                     "latency_details", "query_info"}
              /\ validation.precision_score = Zero
              /\ validation.traceability_score = Zero
              /\ validation.consistency_score = RealOf(One)
              /\ validation.overall_quality =
                    RealOf(FDiv(FAdd(One, validation.latency_score), Frac(4, 1)))

EmptyResultWitness ==
    /\ NumChunks = 0
    /\ Validated
    /\ retrieval_time_ms = 3600
    /\ validation.overall_quality = RealOf(Frac(2, 5))

\* ------------------------------------------------------------------------
\* Properties of embed and batch_embed
\* ------------------------------------------------------------------------
\* C12: an embed call that returns hands back one vector per text of its
\* request, all of one dimension, whatever the service answered.
EmbeddingShape ==
    (last_call # NoCall /\ last_call.outcome = "returned") =>
        /\ Len(last_call.embeddings) = Len(last_call.texts)
        /\ SameDimension(last_call.embeddings)

\* C13: the sub-batches are issued one at a time in input order, and a
\* failing sub-batch is the last one issued: batch_embed raises, returns none
\* of the vectors collected so far, and requests nothing more.
BatchFailFast ==
    /\ \A k \in 1..Len(issued) : issued[k] = (k - 1) * batch_size
    /\ e_error # "" =>
          /\ e_pc = "raised"
          /\ e_result = NoneValue
          /\ issued[Len(issued)] = e_offset
    /\ e_pc = "raised" => e_error \in {"ServiceError", "ValueError"}
    /\ e_pc = "returned" => e_result = Some(all_embeddings)

BatchFailFastWitness ==
    /\ e_pc = "raised"
    /\ e_error = "ValueError"
    /\ Len(issued) >= 2
    /\ all_embeddings # <<>>
    /\ e_offset + batch_size < Len(e_texts)
    /\ e_result = NoneValue

\* ------------------------------------------------------------------------
\* Properties of build_qdrant_filter
\* ------------------------------------------------------------------------
\* C14: n fields give exactly n conditions under must (AND), in the order of
\* the fields: match-any for a list, exact match for a string, and the
\* inclusive range gte = lte = value for a number.
OneConditionPerField ==
    f_pc = "returned" =>
        /\ DOMAIN qdrant_filter = {"must"}
        /\ Len(qdrant_filter.must) = Len(filters)
        /\ \A i \in 1..Len(filters) :
              LET c == qdrant_filter.must[i]
                  v == filters[i][2]
              IN  /\ c.key = filters[i][1]
                  /\ v.kind = "list" =>
                        (DOMAIN c = {"key", "match"} /\ c.match = [any |-> v.value])
                  /\ v.kind = "str" =>
                        (DOMAIN c = {"key", "match"} /\ c.match = [value |-> v.value])
                  /\ v.kind = "num" =>
                        /\ DOMAIN c = {"key", "range"}
                        /\ c.range.gte = v.value
                        /\ c.range.lte = v.value

OneConditionPerFieldWitness ==
    /\ f_pc = "returned"
    /\ Len(filters) = 2
    /\ filters[1][2].kind = "list"
    /\ filters[2][2].kind = "num"
    /\ Len(qdrant_filter.must) = 2

\* ------------------------------------------------------------------------
\* Properties of validate_retrieval_consistency
\* ------------------------------------------------------------------------
\* C21: the score is the share of all num_runs runs whose chunk count is the
\* most frequent count among the runs that returned; a failed run is one of
\* the num_runs runs and has no count; the chunks themselves play no part.
RunConsistencyFraction ==
    (n_pc = "returned" /\ num_runs >= 1) =>
        consistency_score =
            Some(IF SuccessfulRuns(run_results) = <<>> THEN Zero
                 ELSE Frac(CountOf(ResultCounts(run_results),
                                   ModeCount(ResultCounts(run_results))),
                           num_runs))

\* ------------------------------------------------------------------------
\* Properties of the pipeline on anomalous hits
\* ------------------------------------------------------------------------
ResultFields ==
    {"query_request", "retrieved_chunks", "relevance_scores", "total_candidates",
     "validation_metrics"}

ValidationFields ==
    {"retrieval_result", "precision_score", "traceability_score", "consistency_score",
     "latency_score", "overall_quality", "validation_details"}

\* C22: whatever hits the index returned (scores outside [0,1], source_url
\* empty, absent or null), process_query returns a RetrievalResult with one
\* chunk per hit and validate_retrieval_result returns a ValidationResult:
\* neither ends with an exception.
AnomaliesNeverRaise ==
    /\ q_error = ""
    /\ q_pc \in {"assemble", "returned"}
    /\ v_pc \in {"ready", "validated"}
    /\ q_pc = "returned" =>
          /\ DOMAIN q_result = ResultFields
          /\ Len(q_result.retrieved_chunks) = Len(points)
    /\ n_validations > 0 =>
          /\ v_pc = "validated"
          /\ DOMAIN validation = ValidationFields
          /\ validation.retrieval_result = q_result

AnomaliesWitness ==
    /\ v_pc = "validated"
    /\ Len(points) = 2
    /\ points[1].score = 12
    /\ points[1].payload = [source_url |-> PyNone]
    /\ points[2].score = -2
    /\ points[2].payload = EmptyDict
    /\ validation.traceability_score = Zero
    /\ report_status = "FAIL"

\* ------------------------------------------------------------------------
\* Properties of retry_with_backoff
\* ------------------------------------------------------------------------
Failed(k) == ~outcomes[k].ok

\* C28: for max_retries >= 0 func is called at most max_retries + 1 times;
\* the first success is returned and ends the calls; the wait after failed
\* attempt number a (from 0) is backoff_factor * 2^a; after max_retries + 1
\* failures the last exception is raised with no wait behind it; an
\* exception outside `exceptions` is raised at once.
RetryContract ==
    max_retries >= 0 =>
        /\ Len(outcomes) <= max_retries + 1
        /\ \A k \in 1..(Len(outcomes) - 1) :
              Failed(k) /\ outcomes[k].value \in RetriedExceptions
        /\ \A k \in 1..Len(waits) : waits[k] = backoff_factor * 2 ^ (k - 1)
        /\ t_pc = "running" =>
              /\ Len(waits) = Len(outcomes)
              /\ \A k \in 1..Len(outcomes) : Failed(k)
              /\ Len(outcomes) <= max_retries
        /\ t_pc = "returned" =>
              /\ outcomes # <<>>
              /\ outcomes[Len(outcomes)].ok
              /\ t_result = Some(outcomes[Len(outcomes)].value)
              /\ Len(waits) = Len(outcomes) - 1
              /\ t_error = ""
        /\ t_pc = "raised" =>
              /\ outcomes # <<>>
              /\ Failed(Len(outcomes))
              /\ t_error = outcomes[Len(outcomes)].value
              /\ Len(waits) = Len(outcomes) - 1
              /\ t_result = NoneValue
              /\ t_error \in RetriedExceptions => Len(outcomes) = max_retries + 1

\* three failures, waits 3, 6 and 12, and the fourth call succeeds
RetryWitness ==
    /\ t_pc = "returned"
    /\ max_retries = 3
    /\ backoff_factor = 3
    /\ Len(outcomes) = 4
    /\ waits = <<3, 6, 12>>
    /\ t_result = Some("r2")

\* ------------------------------------------------------------------------
\* Properties of apply_metadata_filters
\* ------------------------------------------------------------------------
\* the value a chunk stores for a field: the metadata's when the metadata
\* holds the field, the top-level one otherwise
StoredValue(chunk, field_name) ==
    IF chunk.metadata[field_name] # Absent THEN chunk.metadata[field_name]
    ELSE chunk.top[field_name]

Satisfies(chunk, fs) ==
    \A i \in 1..Len(fs) :
        IF fs[i][2].kind = "list" THEN PyIn(StoredValue(chunk, fs[i][1]), fs[i][2].value)
        ELSE PyEqual(StoredValue(chunk, fs[i][1]), fs[i][2])

RECURSIVE Satisfying(_, _)
Satisfying(cs, fs) ==
    IF cs = <<>> THEN <<>>
    ELSE IF Satisfies(Head(cs), fs) THEN <<Head(cs)>> \o Satisfying(Tail(cs), fs)
         ELSE Satisfying(Tail(cs), fs)

\* C29: the call returns, in input order, exactly the chunks whose stored
\* value satisfies every filter field, stored values 0, False and "" included
MetadataFilterExact ==
    m_pc = "returned" => m_result = Satisfying(m_chunks, m_filters)

\* ------------------------------------------------------------------------
\* Properties of chunk_content_chunks
\* ------------------------------------------------------------------------
\* the number of chunks emitted for the documents before the d-th
RECURSIVE EmittedBefore(_)
EmittedBefore(d) == IF d <= 1 THEN 0 ELSE EmittedBefore(d - 1) + Len(text_chunks_log[d - 1])

\* C23: the documents are chunked one by one in input order, each from a
\* fresh chunk_text call on its own text; the k chunks of document P follow
\* one another with ids P_chunk_0 .. P_chunk_(k-1), chunk_index 0 .. k-1, and
\* metadata naming P, the index, total_chunks = k and is_chunked = TRUE; equal
\* texts give equal chunks wherever they stand in the list.
PerDocumentChunks ==
    /\ Len(text_chunks_log) = doc_index
    /\ Len(chunked_content) = EmittedBefore(doc_index + 1)
    /\ k_pc = "returned" => doc_index = Len(content_chunks)
    /\ (k_pc = "chunking" /\ pc = "entry") =>
          /\ text = content_chunks[doc_index + 1].text_content
          /\ start = 0 /\ chunks = <<>> /\ cuts = <<>> /\ result = <<>>
    /\ \A d, e \in 1..doc_index :
          content_chunks[d].text_content = content_chunks[e].text_content =>
              text_chunks_log[d] = text_chunks_log[e]
    /\ \A d \in 1..doc_index :
          LET P == content_chunks[d]
              k == Len(text_chunks_log[d])
          IN  \A i \in 0..(k - 1) :
                  LET c == chunked_content[EmittedBefore(d) + i + 1]
                  IN  /\ c.id = P.id \o "_chunk_" \o ToString(i)
                      /\ c.chunk_index = i
                      /\ c.text_content = text_chunks_log[d][i + 1]
                      /\ c.source_url = P.source_url
                      /\ c.page_title = P.page_title
                      /\ c.created_at = P.created_at
                      /\ c.metadata.original_chunk_id = P.id
                      /\ c.metadata.chunk_index = i
                      /\ c.metadata.total_chunks = k
                      /\ c.metadata.is_chunked = TRUE
                      /\ \A key \in DOMAIN P.metadata \ {"chunk_index"} :
                            c.metadata[key] = P.metadata[key]

\* two documents: three chunks of P, then one of Q
PerDocumentWitness ==
    /\ k_pc = "returned"
    /\ Len(content_chunks) = 2
    /\ content_chunks[1].id = "P"
    /\ content_chunks[2].id = "Q"
    /\ content_chunks[1].metadata # EmptyDict
    /\ Len(text_chunks_log[1]) = 3
    /\ Len(text_chunks_log[2]) = 1
    /\ chunked_content[3].id = "P_chunk_2"
    /\ chunked_content[3].metadata.chunk_index = 2
    /\ chunked_content[3].metadata.total_chunks = 3
    /\ chunked_content[4].id = "Q_chunk_0"
    /\ chunked_content[4].metadata.total_chunks = 1

\* ------------------------------------------------------------------------
\* Properties of chat_endpoint
\* ------------------------------------------------------------------------
Answered == {i \in 1..Len(chat_log) : chat_log[i].status = 200}

\* C24: every answered request that carried a session_id, that is anything
\* but None, gets that session_id back, and every answered request that
\* carried none gets a generated, non-null one.
SessionIdEchoed ==
    \A i \in Answered :
        IF chat_log[i].session_id # PyNone
        THEN chat_log[i].response_session_id = chat_log[i].session_id
        ELSE chat_log[i].response_session_id \in Uuids

\* C24 (amended): every answered request that carried a non-empty session_id
\* gets it back; every answered request that carried None or the empty
\* string gets a generated one; no answer carries None or the empty string,
\* so a request that sends an answer's session_id on gets the same one back.
NonEmptySessionIdEchoed ==
    /\ \A i \in Answered :
          /\ Truthy(chat_log[i].response_session_id)
          /\ IF Truthy(chat_log[i].session_id)
             THEN chat_log[i].response_session_id = chat_log[i].session_id
             ELSE chat_log[i].response_session_id \in Uuids
    /\ \A i, j \in Answered :
          (i < j /\ chat_log[j].session_id = chat_log[i].response_session_id) =>
              chat_log[j].response_session_id = chat_log[i].response_session_id

\* a session opened without an id and carried on with the answer's id, then
\* a request with the empty string
SessionIdWitness ==
    /\ Len(chat_log) = 3
    /\ Answered = {1, 2, 3}
    /\ chat_log[1].session_id = PyNone
    /\ chat_log[1].response_session_id = "u1"
    /\ chat_log[2].session_id = "u1"
    /\ chat_log[2].response_session_id = "u1"
    /\ chat_log[3].session_id = ""
    /\ chat_log[3].response_session_id = "u2"

\* ------------------------------------------------------------------------
\* Properties of ask_question
\* ------------------------------------------------------------------------
\* C30: every stored conversation_history holds at most max_history_length
\* turns, and of two turns of one history the one that arrived later, which
\* is the one further back in the list, has the greater turn_id.
TurnIdsIncreasing ==
    \A sid \in DOMAIN session_store :
        LET history == session_store[sid]
        IN  /\ Len(history) <= max_history_length
            /\ \A i, j \in 1..Len(history) :
                  i < j => history[i].turn_id < history[j].turn_id

====
